---------------------------- MODULE Spec2Model ----------------------------
(***************************************************************************)
(* A model of the NYKNYC wagmi connector: the authenticated API client,    *)
(* the session store's validity check, the OAuth window race, the EIP-1193 *)
(* provider and the connector facade.                                      *)
(*                                                                         *)
(* Strings the code inspects character by character (status words) are     *)
(* sequences of one-character strings, so that toLowerCase is computed.    *)
(***************************************************************************)
EXTENDS Integers, Sequences, FiniteSets, TLC

VARIABLES
  \* ---- withAuthFetch (utils/api.ts) : one call in flight
  fPc,          \* "idle" | "first" | "refresh" | "retry" | "done"
  fCb,          \* is onUnauthorized supplied
  fAccess,      \* the accessToken argument
  fTokens,      \* tokens handed to makeRequest, in call order
  fResponses,   \* what each makeRequest call produced (HTTP status or NetErr)
  fRefreshes,   \* number of onUnauthorized invocations
  fNewToken,    \* token returned by onUnauthorized, or None
  fResult,      \* what the caller receives: "ok" or an error message
  \* ---- mapStatus (utils/api.ts) applied to a raw status, then to its own output
  msInput,      \* the raw status value of the payload
  msOnce,       \* mapStatus(msInput), or Unset
  msTwice,      \* mapStatus(msOnce), or Unset
  \* ---- NyknycStorage.isSessionValid / SessionManager.isValid
  clockNow,     \* Date.now(), in ms
  smSession,    \* SessionManager.session: <<>> (null) or <<session record>>
  validChecked, \* has SessionManager.isValid() been called at clockNow
  validResult,  \* the value it returned
  \* ---- NyknycProvider (provider.ts)
  pSession,     \* this.session: <<>> (null) or <<session record>>
  pEmitted,     \* events passed to emit() by the latest operation, in order
  pWindows,     \* windows opened with window.open by the latest operation
  req,          \* the request() call in flight
  pBatches,     \* callBatches: batch id -> transaction ids, in call order
  pListeners,   \* listeners: event name -> the Set's members, in insertion order
  lRemoved,     \* <<event, listener>> pairs removed and not registered since
  \* ---- the connector (connector.ts) and its managers
  conn,         \* the connector closure, storage, and the connect() call in flight
  auth,         \* the OAuth attempt: AuthFlowManager and openAuthWindow
  \* ---- the connector with several host calls in flight
  host,         \* the closure's variables, the managers' fields and storage
  calls,        \* the host's calls of connector methods: position and outcome
  \* ---- NyknycStorage (utils/storage.ts)
  stg,          \* the two backends' items and the latest call of the store
  \* ---- backend calls of the provider and restores, with their token refresh
  bk,           \* per call: position, tokens sent, the refresh and its outcome
  \* ---- the polling primitives of utils/api.ts
  pl,           \* the wait in progress: attempts, requests in flight, outcome
  \* ---- wallet_getCallsReceipt applied to the status payloads of a batch
  rc,           \* the raw payloads of the members and the answer built
  \* ---- AuthFlowManager.initiate of overlapping connect() calls
  px            \* the 'nyknyc.pkce' item of sessionStorage and the attempts

fetchVars == <<fPc, fCb, fAccess, fTokens, fResponses, fRefreshes, fNewToken, fResult>>
statusVars == <<msInput, msOnce, msTwice>>
validityVars == <<clockNow, smSession, validChecked, validResult>>

providerVars == <<pSession, pEmitted, pWindows, req, pBatches>>

listenerVars == <<pListeners, lRemoved>>

connVars == <<conn, auth>>

hostVars == <<host, calls>>

storageVars == <<stg>>

refreshVars == <<bk>>
pollVars == <<pl>>
receiptVars == <<rc>>
pkceVars == <<px>>

vars ==
  <<fetchVars, statusVars, validityVars, providerVars, listenerVars, connVars, hostVars,
    storageVars, refreshVars, pollVars, receiptVars, pkceVars>>

None == "none"

\* what the actions of one component leave alone
FetchFrame ==
  UNCHANGED <<statusVars, validityVars, providerVars, listenerVars, connVars, hostVars, storageVars, refreshVars, pollVars, receiptVars, pkceVars>>
StatusFrame ==
  UNCHANGED <<fetchVars, validityVars, providerVars, listenerVars, connVars, hostVars, storageVars, refreshVars, pollVars, receiptVars, pkceVars>>
ValidityFrame ==
  UNCHANGED <<fetchVars, statusVars, providerVars, listenerVars, connVars, hostVars, storageVars, refreshVars, pollVars, receiptVars, pkceVars>>
\* what the provider's requests leave alone: none of them registers or removes
\* a listener
ProviderFrame ==
  UNCHANGED <<fetchVars, statusVars, validityVars, listenerVars, connVars, hostVars, storageVars, refreshVars, pollVars, receiptVars, pkceVars>>

---------------------------------------------------------------------------
(* Bounds of the model *)

\* clock samples are 0..2*MaxSkew, expiries lie MaxSkew around the buffer boundary
MaxSkew == 4

---------------------------------------------------------------------------
(* HTTP responses and validateApiResponse *)

\* status 0 stands for fetch itself throwing (no response)
NetErr == 0

\* the statuses a fetch can answer with
HttpStatuses == {200, 204, 400, 401, 403, 404, 429, 500, 503}

Responses == HttpStatuses \cup {NetErr}

\* Response.ok
ResponseOk(status) == status >= 200 /\ status <= 299

\* validateApiResponse: "ok" when it returns, else the message of the error thrown
validateApiResponse(status) ==
  IF ResponseOk(status) THEN "ok"
  ELSE IF status = 401 THEN "Authentication failed. Please reconnect your wallet."
  ELSE IF status = 403 THEN "Access denied. Please check your permissions."
  ELSE IF status = 429 THEN "Rate limit exceeded. Please try again later."
  ELSE IF status >= 500 THEN "Server error. Please try again later."
  ELSE "API request failed with status"

NetworkError == "TypeError: fetch failed"
RefreshFailed == "Token refresh failed"

JsonError == "SyntaxError: Unexpected end of JSON input"

\* what the caller of withAuthFetch receives when `resp` is the last response and
\* its body does (jsonOk) or does not parse: lines 29-30
FetchOutcome(resp, jsonOk) ==
  IF resp = NetErr THEN NetworkError
  ELSE IF validateApiResponse(resp) # "ok" THEN validateApiResponse(resp)
  ELSE IF jsonOk THEN "ok" ELSE JsonError

---------------------------------------------------------------------------
(* withAuthFetch *)

AccessTokens == {"tok0", "tokA"}
RefreshedTokens == {"tok1", "tok2"}

\* a plausible slip: also refreshing on 403
ShouldRefresh_Also403(resp, cb) == cb /\ resp \in {401, 403}

\* api.ts line 23: response.status === 401 && onUnauthorized
ShouldRefresh(resp, cb) == cb /\ resp = 401

FetchIdle ==
  /\ fPc = "idle"
  /\ fCb = FALSE
  /\ fAccess = None
  /\ fTokens = <<>>
  /\ fResponses = <<>>
  /\ fRefreshes = 0
  /\ fNewToken = None
  /\ fResult = None

\* a caller invokes withAuthFetch(makeRequest, accessToken, onUnauthorized?)
FetchCall(tok, cb) ==
  /\ FetchFrame
  /\ fPc \in {"idle", "done"}
  /\ fPc' = "first"
  /\ fCb' = cb
  /\ fAccess' = tok
  /\ fTokens' = <<>>
  /\ fResponses' = <<>>
  /\ fRefreshes' = 0
  /\ fNewToken' = None
  /\ fResult' = None

\* line 21: response = await makeRequest(accessToken); then lines 23, 29-30
FetchFirst(resp, jsonOk) ==
  /\ FetchFrame
  /\ fPc = "first"
  /\ (~ jsonOk) => ResponseOk(resp)
  /\ fTokens' = Append(fTokens, fAccess)
  /\ fResponses' = Append(fResponses, resp)
  /\ IF resp # NetErr /\ ShouldRefresh(resp, fCb)
       THEN fPc' = "refresh" /\ fResult' = fResult
       ELSE fPc' = "done" /\ fResult' = FetchOutcome(resp, jsonOk)
  /\ UNCHANGED <<fCb, fAccess, fRefreshes, fNewToken>>

\* line 25: newToken = await onUnauthorized(); the callback returns a token
FetchRefreshOk(tok) ==
  /\ FetchFrame
  /\ fPc = "refresh"
  /\ fRefreshes' = fRefreshes + 1
  /\ fNewToken' = tok
  /\ fPc' = "retry"
  /\ UNCHANGED <<fCb, fAccess, fTokens, fResponses, fResult>>

\* line 25: the callback throws (refresh request failed): the error propagates
FetchRefreshThrows ==
  /\ FetchFrame
  /\ fPc = "refresh"
  /\ fRefreshes' = fRefreshes + 1
  /\ fPc' = "done"
  /\ fResult' = RefreshFailed
  /\ UNCHANGED <<fCb, fAccess, fTokens, fResponses, fNewToken>>

\* line 26: response = await makeRequest(newToken); then lines 29-30
FetchRetry(resp, jsonOk) ==
  /\ FetchFrame
  /\ fPc = "retry"
  /\ (~ jsonOk) => ResponseOk(resp)
  /\ fTokens' = Append(fTokens, fNewToken)
  /\ fResponses' = Append(fResponses, resp)
  /\ fPc' = "done"
  /\ fResult' = FetchOutcome(resp, jsonOk)
  /\ UNCHANGED <<fCb, fAccess, fRefreshes, fNewToken>>

FetchNext ==
  \/ \E tok \in AccessTokens, cb \in BOOLEAN : FetchCall(tok, cb)
  \/ \E resp \in Responses, jsonOk \in BOOLEAN : FetchFirst(resp, jsonOk)
  \/ \E tok \in RefreshedTokens : FetchRefreshOk(tok)
  \/ FetchRefreshThrows
  \/ \E resp \in Responses, jsonOk \in BOOLEAN : FetchRetry(resp, jsonOk)

---------------------------------------------------------------------------
(* mapStatus *)

UpperChars == <<"A","B","C","D","E","F","G","H","I","J","K","L","M",
                "N","O","P","Q","R","S","T","U","V","W","X","Y","Z">>
LowerChars == <<"a","b","c","d","e","f","g","h","i","j","k","l","m",
                "n","o","p","q","r","s","t","u","v","w","x","y","z">>

LowerChar(c) ==
  IF \E i \in DOMAIN UpperChars : UpperChars[i] = c
    THEN LowerChars[CHOOSE i \in DOMAIN UpperChars : UpperChars[i] = c]
    ELSE c

UpperChar(c) ==
  IF \E i \in DOMAIN LowerChars : LowerChars[i] = c
    THEN UpperChars[CHOOSE i \in DOMAIN LowerChars : LowerChars[i] = c]
    ELSE c

\* String.prototype.toLowerCase
toLowerCase(s) == [i \in DOMAIN s |-> LowerChar(s[i])]
toUpperCase(s) == [i \in DOMAIN s |-> UpperChar(s[i])]
Capitalize(s) == [i \in DOMAIN s |-> IF i = 1 THEN UpperChar(s[i]) ELSE s[i]]

W_confirmed == <<"c","o","n","f","i","r","m","e","d">>
W_mined == <<"m","i","n","e","d">>
W_success == <<"s","u","c","c","e","s","s">>
W_completed == <<"c","o","m","p","l","e","t","e","d">>
W_broadcasted == <<"b","r","o","a","d","c","a","s","t","e","d">>
W_sent == <<"s","e","n","t">>
W_submitted == <<"s","u","b","m","i","t","t","e","d">>
W_broadcast == <<"b","r","o","a","d","c","a","s","t">>
W_signed == <<"s","i","g","n","e","d">>
W_failed == <<"f","a","i","l","e","d">>
W_reverted == <<"r","e","v","e","r","t","e","d">>
W_error == <<"e","r","r","o","r">>
W_pending_signature == <<"p","e","n","d","i","n","g","_","s","i","g","n","a","t","u","r","e">>
W_pending == <<"p","e","n","d","i","n","g">>
W_awaiting_signature == <<"a","w","a","i","t","i","n","g","_","s","i","g","n","a","t","u","r","e">>

\* a JavaScript value: a string (with its characters) or a value of another type
Str(chars) == [type |-> "string", chars |-> chars]
NonStr(type) == [type |-> type, chars |-> <<>>]
Unset == NonStr("unset")

\* a raw status that is not a string
NonStrings == {NonStr("null"), NonStr("undefined"), NonStr("number"), NonStr("object")}

\* typeof rawStatus === 'string'
IsString(v) == v.type = "string"

\* a slip: the default branch passes the lower-cased input through
mapStatus_PassThrough(rawStatus) ==
  LET s == IF IsString(rawStatus) THEN toLowerCase(rawStatus.chars) ELSE <<>>
  IN  IF s \in {W_confirmed, W_mined, W_success, W_completed} THEN Str(W_completed)
      ELSE IF s \in {W_broadcasted, W_sent, W_submitted, W_broadcast} THEN Str(W_broadcasted)
      ELSE IF s = W_signed THEN Str(W_signed)
      ELSE IF s \in {W_failed, W_reverted, W_error} THEN Str(W_failed)
      ELSE Str(s)

\* api.ts lines 45-70
mapStatus(rawStatus) ==
  LET s == IF IsString(rawStatus) THEN toLowerCase(rawStatus.chars) ELSE <<>>
  IN  IF s \in {W_confirmed, W_mined, W_success, W_completed} THEN Str(W_completed)
      ELSE IF s \in {W_broadcasted, W_sent, W_submitted, W_broadcast} THEN Str(W_broadcasted)
      ELSE IF s = W_signed THEN Str(W_signed)
      ELSE IF s \in {W_failed, W_reverted, W_error} THEN Str(W_failed)
      ELSE Str(W_pending_signature)

CanonicalStatuses ==
  {Str(W_pending_signature), Str(W_signed), Str(W_broadcasted), Str(W_completed), Str(W_failed)}

\* the case labels of the switch
SynonymTable ==
  {W_confirmed, W_mined, W_success, W_completed, W_broadcasted, W_sent, W_submitted,
   W_broadcast, W_signed, W_failed, W_reverted, W_error, W_pending_signature,
   W_pending, W_awaiting_signature}

\* strings no case label matches
UnknownWords ==
  {<<>>, <<"o","k">>, <<"d","o","n","e">>, <<"c","o","m","p","l","e","t","e">>,
   <<"C","O","N","F","I","R","M">>, <<"s","u","c","c","e","s","s","f","u","l">>,
   <<"c","o","m","p","l","e","t","e","d"," ">>, <<"S","i","g","n">>,
   <<"u","n","k","n","o","w","n">>, <<"q","u","e","u","e","d">>}

StatusInputs ==
  {Str(w) : w \in SynonymTable}
    \cup {Str(toUpperCase(w)) : w \in SynonymTable}
    \cup {Str(Capitalize(w)) : w \in SynonymTable}
    \cup {Str(w) : w \in UnknownWords}
    \cup NonStrings

StatusDraw ==
  /\ msInput \in StatusInputs
  /\ msOnce = Unset
  /\ msTwice = Unset

StatusIdle ==
  /\ msInput = NonStr("null")
  /\ msOnce = Unset
  /\ msTwice = Unset

\* normalizeTransactionStatus line 99 / createTransaction line 145
MapOnce ==
  /\ StatusFrame
  /\ msOnce = Unset
  /\ msOnce' = mapStatus(msInput)
  /\ UNCHANGED <<msInput, msTwice>>

\* the canonical status fed to mapStatus again
MapTwice ==
  /\ StatusFrame
  /\ msOnce # Unset
  /\ msTwice = Unset
  /\ msTwice' = mapStatus(msOnce)
  /\ UNCHANGED <<msInput, msOnce>>

StatusNext == MapOnce \/ MapTwice

---------------------------------------------------------------------------
(* Session validity *)

MsPerSecond == 1000
SecondsPerMinute == 60
DefaultBufferMinutes == 5

BufferMs(bufferMinutes) == bufferMinutes * SecondsPerMinute * MsPerSecond

\* an off-by-one slip: > instead of >=
isSessionValid_OffByOne(session, bufferMinutes, now) ==
  IF session = <<>> THEN FALSE
  ELSE ~ (now > session[1].expiresAt - BufferMs(bufferMinutes))

\* storage.ts lines 86-96, with Date.now() = now
isSessionValid(session, bufferMinutes, now) ==
  IF session = <<>> THEN FALSE
  ELSE LET isExpired == now >= session[1].expiresAt - BufferMs(bufferMinutes)
       IN  ~ isExpired

\* SessionManager.isValid, lines 44-49
SessionManagerIsValid(session, now) ==
  IF session = <<>> THEN FALSE
  ELSE isSessionValid(session, DefaultBufferMinutes, now)

ClockSamples == 0 .. (2 * MaxSkew)
ExpirySamples ==
  (0 .. MaxSkew) \cup
  {BufferMs(DefaultBufferMinutes) + k : k \in 0 .. (2 * MaxSkew + 1)}

ValidityDraw ==
  /\ clockNow \in ClockSamples
  /\ smSession \in {<<>>} \cup {<<[expiresAt |-> e]>> : e \in ExpirySamples}
  /\ validChecked = FALSE
  /\ validResult = FALSE

ValidityIdle ==
  /\ clockNow = 0
  /\ smSession = <<>>
  /\ validChecked = FALSE
  /\ validResult = FALSE

CheckValid ==
  /\ ValidityFrame
  /\ validChecked' = TRUE
  /\ validResult' = SessionManagerIsValid(smSession, clockNow)
  /\ UNCHANGED <<clockNow, smSession>>

\* time passes
Tick ==
  /\ ValidityFrame
  /\ clockNow < 2 * MaxSkew
  /\ clockNow' = clockNow + 1
  /\ validChecked' = FALSE
  /\ validResult' = FALSE
  /\ UNCHANGED smSession

ValidityNext == CheckValid \/ Tick

---------------------------------------------------------------------------
(* Hex quantities: parseInt(s, 16) and n.toString(16) *)

HexDigitChars == <<"0","1","2","3","4","5","6","7","8","9","a","b","c","d","e","f">>

\* the value of a hex digit, -1 for any other character
HexVal(c) ==
  IF \E i \in DOMAIN HexDigitChars : HexDigitChars[i] = LowerChar(c)
    THEN (CHOOSE i \in DOMAIN HexDigitChars : HexDigitChars[i] = LowerChar(c)) - 1
    ELSE -1

\* Number.isNaN(parseInt(...)) is modelled by the value NaN
NaN == -1

RECURSIVE ParseDigits(_, _, _)
ParseDigits(body, i, acc) ==
  IF i > Len(body) \/ HexVal(body[i]) = -1
    THEN IF i = 1 THEN NaN ELSE acc
    ELSE ParseDigits(body, i + 1, acc * 16 + HexVal(body[i]))

\* parseInt(s, 16): an optional 0x prefix, then the longest run of hex digits
ParseIntHex(s) ==
  LET body == IF Len(s) >= 2 /\ s[1] = "0" /\ LowerChar(s[2]) = "x"
                THEN SubSeq(s, 3, Len(s)) ELSE s
  IN  ParseDigits(body, 1, 0)

RECURSIVE ToString16(_)
\* n.toString(16)
ToString16(n) ==
  IF n < 16 THEN <<HexDigitChars[n + 1]>>
  ELSE ToString16(n \div 16) \o <<HexDigitChars[(n % 16) + 1]>>

\* `0x${n.toString(16)}`
HexOf(n) == <<"0", "x">> \o ToString16(n)

---------------------------------------------------------------------------
(* NyknycProvider: state *)

\* sessions handed to updateSession by the connector
WalletAddresses == {"0xWalletA", "0xWalletB"}
SessionChains == {1, 10}
SupportedChainLists == {{1, 10}, {10}}

\* an expiry beyond the validity buffer
FarExpiry == BufferMs(DefaultBufferMinutes) + MsPerSecond

Session(addr, chain, hasList, list, tok) ==
  [walletAddress |-> addr, chainId |-> chain, hasSupportedChains |-> hasList,
   supportedChains |-> list, accessToken |-> tok, refreshToken |-> "refresh0",
   expiresAt |-> FarExpiry]

SessionSamples ==
  {Session(a, c, TRUE, l, "tok0") : a \in WalletAddresses, c \in SessionChains,
                                    l \in SupportedChainLists}
    \cup {Session(a, c, FALSE, {}, "tok0") : a \in WalletAddresses, c \in SessionChains}

Event(name, args) == [name |-> name, args |-> args]

NoActiveSession == "No active session"

\* the request in flight (one at a time), with the values the code holds in
\* locals and the record of what the operation has done so far
ReqIdle ==
  [method |-> "none", pc |-> "idle", outcome |-> "pending", value |-> "",
   hadSession |-> FALSE, chainBefore |-> 0, chainReq |-> 0,
   preWindow |-> "none", txId |-> "", attempt |-> 0, polls |-> 0,
   firstHashPoll |-> 0, hashSeen |-> "", statusSeen |-> Unset,
   arg |-> <<>>, encoding |-> "", loopToken |-> "",
   calls |-> 0, created |-> <<>>, batchId |-> "", gathered |-> <<>>,
   hashless |-> FALSE,
   receipt |-> [status |-> "", hasReceipts |-> FALSE, receipts |-> <<>>],
   backend |-> 0, requested |-> <<>>, result |-> <<>>, signSeen |-> <<>>,
   prev |-> <<>>, valueArg |-> <<>>, txValue |-> <<>>]

ProviderIdle ==
  /\ pSession = <<>>
  /\ pEmitted = <<>>
  /\ pWindows = <<>>
  /\ req = ReqIdle
  /\ pBatches = [b \in {} |-> <<>>]
  /\ pListeners = [e \in {} |-> <<>>]
  /\ lRemoved = {}

CanStart == req.pc \in {"idle", "done"}

Reject(r, msg) == [r EXCEPT !.pc = "done", !.outcome = "rejected", !.value = msg]
Resolve(r, v) == [r EXCEPT !.pc = "done", !.outcome = "resolved", !.value = v]

\* request() dispatch for a session-requiring method: the `if (!this.session)
\* throw` every such method starts with
StartReq(method) ==
  [ReqIdle EXCEPT !.method = method,
                  !.hadSession = pSession # <<>>,
                  !.chainBefore = IF pSession = <<>> THEN 0 ELSE pSession[1].chainId]

---------------------------------------------------------------------------
(* updateSession, provider.ts lines 64-90 *)

---------------------------------------------------------------------------
(* on / removeListener / emit / close, lines 663-712 *)

\* a listener function: its name, the attach() call that bound it (0 for a
\* function of the host), and whether calling it throws
Listener(fn, gen, throws) == [fn |-> fn, gen |-> gen, throws |-> throws]

NoListeners == [e \in {} |-> <<>>]

Members(seq) == {seq[i] : i \in DOMAIN seq}

\* on(event, listener), lines 663-668: Set.add leaves a member where it is
on(listeners, event, listener) ==
  LET m == IF event \in DOMAIN listeners THEN listeners ELSE listeners @@ (event :> <<>>)
  IN  [m EXCEPT ![event] = IF listener \in Members(@) THEN @ ELSE Append(@, listener)]

\* removeListener(event, listener), lines 673-678
removeListener(listeners, event, listener) ==
  IF event \in DOMAIN listeners
    THEN [listeners EXCEPT ![event] = SelectSeq(@, LAMBDA x : x # listener)]
    ELSE listeners

\* what a run of emit() did: the listeners called, the errors logged, and
\* whether an exception left emit()
NoEmission == [invoked |-> <<>>, logged |-> 0, thrown |-> FALSE]

\* a slip: the call is not wrapped in try/catch
invoke_NoCatch(out, listener, e) ==
  LET called == [out EXCEPT !.invoked = Append(@, [listener |-> listener, event |-> e])]
  IN  IF listener.throws THEN [called EXCEPT !.thrown = TRUE] ELSE called

\* the forEach callback, lines 686-692: call, and log what the call throws
invoke(out, listener, e) ==
  LET called == [out EXCEPT !.invoked = Append(@, [listener |-> listener, event |-> e])]
  IN  IF listener.throws THEN [called EXCEPT !.logged = @ + 1] ELSE called

RECURSIVE forEach(_, _, _, _)
forEach(ls, i, e, out) ==
  IF i > Len(ls) \/ out.thrown THEN out
  ELSE forEach(ls, i + 1, e, invoke(out, ls[i], e))

\* emit(event, ...args), lines 683-694
emit(listeners, out, e) ==
  IF e.name \in DOMAIN listeners THEN forEach(listeners[e.name], 1, e, out) ELSE out

RECURSIVE emitAll(_, _, _, _)
emitAll(listeners, events, i, out) ==
  IF i > Len(events) \/ out.thrown THEN out
  ELSE emitAll(listeners, events, i + 1, emit(listeners, out, events[i]))

\* the emit() calls of one operation, in order
Emission(listeners, events) == emitAll(listeners, events, 1, NoEmission)

\* how a synchronous operation that emitted these events ended
EmitOutcome(listeners, events) ==
  IF Emission(listeners, events).thrown THEN "threw" ELSE "returned"

ListenerThrew == "Error thrown by a listener"

ListenerFrame ==
  UNCHANGED <<fetchVars, statusVars, validityVars, connVars, hostVars, storageVars, refreshVars, pollVars, receiptVars, pkceVars>>

On(event, listener) ==
  /\ ListenerFrame
  /\ CanStart
  /\ pListeners' = on(pListeners, event, listener)
  /\ lRemoved' = lRemoved \ {<<event, listener>>}
  /\ pEmitted' = <<>>
  /\ pWindows' = <<>>
  /\ req' = [ReqIdle EXCEPT !.method = "on"]
  /\ UNCHANGED <<pSession, pBatches>>

RemoveListener(event, listener) ==
  /\ ListenerFrame
  /\ CanStart
  /\ pListeners' = removeListener(pListeners, event, listener)
  /\ lRemoved' = IF event \in DOMAIN pListeners /\ listener \in Members(pListeners[event])
                   THEN lRemoved \cup {<<event, listener>>} ELSE lRemoved
  /\ pEmitted' = <<>>
  /\ pWindows' = <<>>
  /\ req' = [ReqIdle EXCEPT !.method = "removeListener"]
  /\ UNCHANGED <<pSession, pBatches>>

\* close(), lines 708-712
ProviderClose ==
  /\ ListenerFrame
  /\ CanStart
  /\ pListeners' = NoListeners
  /\ lRemoved' = lRemoved \cup UNION {{<<e, l>> : l \in Members(pListeners[e])} :
                                        e \in DOMAIN pListeners}
  /\ pSession' = <<>>
  /\ pBatches' = [b \in {} |-> <<>>]
  /\ pEmitted' = <<>>
  /\ pWindows' = <<>>
  /\ req' = [ReqIdle EXCEPT !.method = "close"]

\* a slip: both events are emitted on every update
UpdateSessionEvents_Always(prev, session) ==
  <<Event("accountsChanged", <<session.walletAddress>>),
    Event("chainChanged", HexOf(session.chainId))>>

UpdateSessionEvents(prev, session) ==
  LET previousAccounts == IF prev = <<>> THEN <<>> ELSE <<prev[1].walletAddress>>
      currentAccounts == <<session.walletAddress>>
      accounts == IF previousAccounts # currentAccounts
                    THEN <<Event("accountsChanged", currentAccounts)>> ELSE <<>>
      chain == IF prev = <<>> \/ prev[1].chainId # session.chainId
                 THEN <<Event("chainChanged", HexOf(session.chainId))>> ELSE <<>>
  IN  accounts \o chain

UpdateSession(session) ==
  /\ ProviderFrame
  /\ UNCHANGED pBatches
  /\ CanStart
  /\ pSession' = <<session>>
  /\ pEmitted' = UpdateSessionEvents(pSession, session)
  /\ pWindows' = <<>>
  /\ req' = [ReqIdle EXCEPT !.method = "updateSession", !.prev = pSession,
                            !.outcome = EmitOutcome(pListeners, pEmitted')]

\* updateSession(null)
ClearSession ==
  /\ ProviderFrame
  /\ UNCHANGED pBatches
  /\ CanStart
  /\ pSession' = <<>>
  /\ pEmitted' = IF pSession # <<>> THEN <<Event("accountsChanged", <<>>)>> ELSE <<>>
  /\ pWindows' = <<>>
  /\ req' = [ReqIdle EXCEPT !.method = "updateSession(null)", !.prev = pSession,
                            !.outcome = EmitOutcome(pListeners, pEmitted')]

---------------------------------------------------------------------------
(* wallet_switchEthereumChain / wallet_addEthereumChain, lines 612-658 *)

ChainHexInputs ==
  {<<"0","x","1">>, <<"0","x","a">>, <<"0","x","A">>, <<"0","x","3","e","7">>,
   <<"0","x">>, <<"z","z">>}

ChainNotSupported(n) == "Chain " \o ToString(n) \o " is not supported by NYKNYC wallet"
InvalidChainId == "Invalid chainId"

\* a slip: the membership test is inverted
ChainRejected_Inverted(session, n) ==
  session.hasSupportedChains /\ n \in session.supportedChains

\* lines 623 / 650: supportedChains && !supportedChains.includes(numericChainId)
ChainRejected(session, n) ==
  session.hasSupportedChains /\ n \notin session.supportedChains

\* a slip: the event is left out when the chain is the active one
SwitchChainEvents_OnChange(before, n) ==
  IF before = n THEN <<>> ELSE <<Event("chainChanged", HexOf(n))>>

\* line 632: the event of a switch from chain `before` to chain n
SwitchChainEvents(before, n) == <<Event("chainChanged", HexOf(n))>>

\* switchChain(chainId), lines 612-633
SwitchChain(chainId) ==
  /\ ProviderFrame
  /\ UNCHANGED pBatches
  /\ CanStart
  /\ LET r == [StartReq("wallet_switchEthereumChain") EXCEPT !.arg = chainId]
         n == ParseIntHex(chainId)
     IN  IF pSession = <<>>
           THEN /\ req' = Reject(r, NoActiveSession)
                /\ UNCHANGED pSession /\ pEmitted' = <<>> /\ pWindows' = <<>>
         ELSE IF n = NaN
           THEN /\ req' = Reject(r, InvalidChainId)
                /\ UNCHANGED pSession /\ pEmitted' = <<>> /\ pWindows' = <<>>
         ELSE IF ChainRejected(pSession[1], n)
           THEN /\ req' = Reject([r EXCEPT !.chainReq = n], ChainNotSupported(n))
                /\ UNCHANGED pSession
                /\ pEmitted' = <<>>
                /\ pWindows' = <<"unsupported-chain">>
         ELSE /\ pSession' = <<[pSession[1] EXCEPT !.chainId = n]>>
              /\ pEmitted' = SwitchChainEvents(pSession[1].chainId, n)
              /\ req' = IF Emission(pListeners, pEmitted').thrown
                          THEN Reject([r EXCEPT !.chainReq = n], ListenerThrew)
                          ELSE Resolve([r EXCEPT !.chainReq = n], "undefined")
              /\ pWindows' = <<>>

\* addEthereumChain(params), lines 639-658
AddEthereumChain(chainId) ==
  /\ ProviderFrame
  /\ UNCHANGED pBatches
  /\ CanStart
  /\ UNCHANGED pSession
  /\ pEmitted' = <<>>
  /\ LET r == [StartReq("wallet_addEthereumChain") EXCEPT !.arg = chainId]
         n == ParseIntHex(chainId)
     IN  IF pSession = <<>>
           THEN req' = Reject(r, NoActiveSession) /\ pWindows' = <<>>
         ELSE IF n = NaN
           THEN req' = Reject(r, InvalidChainId) /\ pWindows' = <<>>
         ELSE IF ChainRejected(pSession[1], n)
           THEN /\ req' = Reject([r EXCEPT !.chainReq = n], ChainNotSupported(n))
                /\ pWindows' = <<"unsupported-chain">>
         ELSE req' = Resolve([r EXCEPT !.chainReq = n], "null") /\ pWindows' = <<>>

ChainNext ==
  \/ \E s \in SessionSamples : UpdateSession(s)
  \/ ClearSession
  \/ \E c \in ChainHexInputs : SwitchChain(c)
  \/ \E c \in ChainHexInputs : AddEthereumChain(c)

---------------------------------------------------------------------------
(* Backend calls made by the provider: withAuthFetch with refreshAndPersist *)

\* how the 401 path of one backend call went: "none" (the first response was
\* not 401), a refreshed token (refreshAndPersist returned it and the request
\* was retried), or "fail" (refreshAndPersist threw)
ProviderRefreshedTokens == {"tok1"}
RefreshOutcomes == {"none", "fail"} \cup ProviderRefreshedTokens

\* errors a backend call can end with, whichever attempt produced them
BackendErrors ==
  {validateApiResponse(st) : st \in {st \in HttpStatuses : ~ ResponseOk(st)}}
    \cup {NetworkError}

\* the outcome of the whole call: `res` is the outcome of the last attempt
BackendResult(res, rf) == IF rf = "fail" THEN RefreshFailed ELSE res

\* what POST /oauth/token answers to a refresh_token grant: new tokens with
\* every answer
RefreshResponses ==
  {[access_token |-> "tok1", refresh_token |-> "refresh1", expires_in |-> 3600],
   [access_token |-> "tok2", refresh_token |-> "refresh2", expires_in |-> 7200],
   [access_token |-> "tok3", refresh_token |-> "refresh3", expires_in |-> 3600],
   [access_token |-> "tok4", refresh_token |-> "refresh4", expires_in |-> 7200]}

ResponseWith(access) == CHOOSE r \in RefreshResponses : r.access_token = access

\* a slip: the refresh token of the session is kept
applyRefresh_KeepsRefreshToken(session, refreshed, now) ==
  [session EXCEPT !.accessToken = refreshed.access_token,
                  !.expiresAt = now + refreshed.expires_in * MsPerSecond]

\* provider.ts lines 179-181 (SessionManager.ts lines 120-126 and 155-157):
\* the three assignments that follow the await of refreshAccessToken
applyRefresh(session, refreshed, now) ==
  [session EXCEPT !.accessToken = refreshed.access_token,
                  !.refreshToken = refreshed.refresh_token,
                  !.expiresAt = now + refreshed.expires_in * MsPerSecond]

\* refreshAndPersist, lines 173-189, as one backend call of a request sees it
AfterRefresh(session, rf) ==
  IF rf \in ProviderRefreshedTokens /\ session # <<>>
    THEN <<applyRefresh(session[1], ResponseWith(rf), clockNow)>>
    ELSE session

TxIds == {"tx1", "tx2"}

\* the catch blocks of sendTransaction / personalSign / signTypedData
\* (lines 251-260, 332-341, 395-404): close the pre-opened window, emit
\* 'error', rethrow
CatchAndRethrow(r, err) ==
  Reject([r EXCEPT !.preWindow = IF @ = "open" THEN "closed" ELSE @], err)

FailAfter(r, err) ==
  /\ req' = CatchAndRethrow(r, err)
  /\ pEmitted' = Append(pEmitted, Event("error", <<err>>))

Fail(err) == FailAfter(req, err)

---------------------------------------------------------------------------
(* openSigningWindow(popupUrl, baseUrl, preWindow) *)

WindowBlocked == "Failed to open window. Please allow popups for this site."
WindowFailed == "Failed to open NYKNYC window. Please allow popups for this site."

Flows == {"eth_sendTransaction", "personal_sign", "eth_signTypedData_v4"}

\* the user closes the pre-opened about:blank tab
UserClosesPreWindow ==
  /\ ProviderFrame
  /\ UNCHANGED pBatches
  /\ req.method \in Flows
  /\ req.pc \in {"create", "open", "snackbar"}
  /\ req.preWindow = "open"
  /\ req' = [req EXCEPT !.preWindow = "closed"]
  /\ UNCHANGED <<pSession, pEmitted, pWindows>>

\* tryOpenWindow(url), lines 285-299: the pre-opened window is navigated
\* ("reuse"), or window.open answers with a window ("opened") or null ("blocked")
TryOpenOutcomes(r) ==
  {"opened", "blocked"} \cup (IF r.preWindow = "open" THEN {"reuse"} ELSE {})

WindowCalls(how) == IF how = "reuse" THEN pWindows ELSE Append(pWindows, "review")

\* setupWindow resolves the promise at once; the caller goes on to poll with
\* the access token the session holds at that moment
WindowReady(r) == [r EXCEPT !.pc = "poll", !.loopToken = pSession[1].accessToken]

\* the first tryOpenWindow; a blocked popup presents the snackbar
OpenSigningWindow(how) ==
  /\ ProviderFrame
  /\ UNCHANGED pBatches
  /\ req.method \in Flows
  /\ req.pc = "open"
  /\ how \in TryOpenOutcomes(req)
  /\ pWindows' = WindowCalls(how)
  /\ req' = IF how = "blocked" THEN [req EXCEPT !.pc = "snackbar"] ELSE WindowReady(req)
  /\ UNCHANGED <<pSession, pEmitted>>

\* the user clicks the snackbar's retry button: tryOpenWindow once more
SnackbarRetry(how) ==
  /\ ProviderFrame
  /\ UNCHANGED pBatches
  /\ req.method \in Flows
  /\ req.pc = "snackbar"
  /\ how \in TryOpenOutcomes(req)
  /\ pWindows' = WindowCalls(how)
  /\ IF how = "blocked"
       THEN Fail(WindowBlocked)
       ELSE req' = WindowReady(req) /\ UNCHANGED pEmitted
  /\ UNCHANGED pSession

\* the dynamic import of the snackbar module fails
SnackbarImportFails ==
  /\ ProviderFrame
  /\ UNCHANGED pBatches
  /\ req.method \in Flows
  /\ req.pc = "snackbar"
  /\ Fail(WindowFailed)
  /\ UNCHANGED <<pSession, pWindows>>

---------------------------------------------------------------------------
(* eth_sendTransaction, lines 194-261 *)

MalformedCreate == "Malformed /transactions/create response: missing id"

\* window.open('about:blank', '_blank') answers with a window or null
PreWindows == {"open", "none"}

\* a slip: the about:blank window is opened before the session is looked at
SendTransaction_WindowFirst(win) ==
  /\ ProviderFrame
  /\ UNCHANGED pBatches
  /\ CanStart
  /\ pEmitted' = <<>>
  /\ UNCHANGED pSession
  /\ pWindows' = <<"about:blank">>
  /\ LET r == [StartReq("eth_sendTransaction") EXCEPT !.preWindow = win]
     IN  req' = IF pSession = <<>> THEN Reject(r, NoActiveSession)
               ELSE [r EXCEPT !.pc = "create"]

SendTransaction(win) ==
  /\ ProviderFrame
  /\ UNCHANGED pBatches
  /\ CanStart
  /\ pEmitted' = <<>>
  /\ UNCHANGED pSession
  /\ LET r == StartReq("eth_sendTransaction")
     IN  IF pSession = <<>>
           THEN req' = Reject(r, NoActiveSession) /\ pWindows' = <<>>
           ELSE /\ req' = [r EXCEPT !.pc = "create", !.preWindow = win]
                /\ pWindows' = <<"about:blank">>

\* createTransaction: the request (with its refresh-and-retry) and the parsing
\* of the response
CreateTransaction(res, id, rf) ==
  /\ ProviderFrame
  /\ UNCHANGED pBatches
  /\ req.method = "eth_sendTransaction"
  /\ req.pc = "create"
  /\ pSession' = AfterRefresh(pSession, rf)
  /\ IF BackendResult(res, rf) = "ok"
       THEN /\ req' = [req EXCEPT !.pc = "open", !.txId = id, !.backend = @ + 1]
            /\ UNCHANGED pEmitted
       ELSE FailAfter([req EXCEPT !.backend = @ + 1], BackendResult(res, rf))
  /\ UNCHANGED pWindows

\* the payloads GET /transactions/{id}/status answers with
NoHash == ""
TxHashes == {"0xabc", "0xdef"}
RawTxStatuses ==
  {Str(W_pending), Str(W_broadcasted), Str(W_completed), Str(W_failed),
   Str(<<"M","i","n","e","d">>)}
TxErrorTexts == {"", "execution reverted"}

\* an error text accompanies a failed status only
TxPayloads ==
  {p \in [hash : TxHashes \cup {NoHash}, status : RawTxStatuses, error : TxErrorTexts] :
     p.error # "" => p.status = Str(W_failed)}

\* a slip: the execution status of the payload is carried over
normalizeTransactionStatus_KeepsExecution(payload) ==
  IF "execution_status" \in DOMAIN payload /\ payload.execution_status # "undefined"
    THEN [transaction_hash |-> payload.hash, status |-> mapStatus(payload.status),
          error |-> payload.error, execution_status |-> payload.execution_status]
    ELSE [transaction_hash |-> payload.hash, status |-> mapStatus(payload.status),
          error |-> payload.error]

\* normalizeTransactionStatus, lines 72-110: the fields the provider reads
normalizeTransactionStatus(payload) ==
  [transaction_hash |-> payload.hash, status |-> mapStatus(payload.status),
   error |-> payload.error]

\* status.transaction_hash is truthy
HasHash(status) == status.transaction_hash # NoHash

MaxAttempts == 60

TransactionFailed == "Transaction failed"
NoHashReturned == "Transaction broadcasted but no hash returned"
HashTimeout == "Transaction hash timeout - polling exceeded maximum attempts"

\* what one iteration of waitForTransactionHash does with a status: "return",
\* "throw" or "sleep" (lines 449-458)
\* a slip: the loop waits for the completed status
HashWaitStep_UntilCompleted(status) ==
  IF HasHash(status) /\ status.status = Str(W_completed) THEN "return"
  ELSE IF status.status = Str(W_failed) THEN "throw"
  ELSE "sleep"

HashWaitStep(status) ==
  IF HasHash(status) THEN "return"
  ELSE IF status.status = Str(W_failed) THEN "throw"
  ELSE "sleep"

\* one iteration of the loop of waitForTransactionHash whose status request
\* answered with a payload; sendTransaction returns the hash (lines 246-250)
PollTransaction(payload, rf) ==
  /\ ProviderFrame
  /\ UNCHANGED pBatches
  /\ req.method = "eth_sendTransaction"
  /\ req.pc = "poll"
  /\ req.attempt < MaxAttempts
  /\ rf # "fail"
  /\ pSession' = AfterRefresh(pSession, rf)
  /\ UNCHANGED pWindows
  /\ LET status == normalizeTransactionStatus(payload)
         polled == [req EXCEPT !.polls = @ + 1, !.backend = @ + 1,
                               !.firstHashPoll = IF @ = 0 /\ payload.hash # NoHash
                                                   THEN req.polls + 1 ELSE @,
                               !.hashSeen = IF req.firstHashPoll = 0 THEN payload.hash ELSE @,
                               !.statusSeen = IF req.firstHashPoll = 0 /\ payload.hash # NoHash
                                                THEN status.status ELSE @]
     IN  CASE HashWaitStep(status) = "return" /\ HasHash(status) ->
                /\ req' = Resolve(polled, status.transaction_hash)
                /\ UNCHANGED pEmitted
           [] HashWaitStep(status) = "return" /\ ~ HasHash(status) ->
                /\ req' = CatchAndRethrow(polled, NoHashReturned)
                /\ pEmitted' = Append(pEmitted, Event("error", <<NoHashReturned>>))
           [] HashWaitStep(status) = "throw" ->
                /\ req' = CatchAndRethrow(polled,
                            IF status.error # "" THEN status.error ELSE TransactionFailed)
                /\ pEmitted' = Append(pEmitted, Event("error",
                            <<IF status.error # "" THEN status.error ELSE TransactionFailed>>))
           [] OTHER ->
                /\ req' = [polled EXCEPT !.attempt = @ + 1]
                /\ UNCHANGED pEmitted

\* the status request of one iteration fails: getTransactionStatus throws
PollTransactionFails(err, rf) ==
  /\ ProviderFrame
  /\ UNCHANGED pBatches
  /\ req.method = "eth_sendTransaction"
  /\ req.pc = "poll"
  /\ req.attempt < MaxAttempts
  /\ pSession' = AfterRefresh(pSession, rf)
  /\ UNCHANGED pWindows
  /\ req' = CatchAndRethrow([req EXCEPT !.polls = @ + 1, !.backend = @ + 1],
                             BackendResult(err, rf))
  /\ pEmitted' = Append(pEmitted, Event("error", <<BackendResult(err, rf)>>))

\* the loop ends after maxAttempts iterations (line 460)
PollTransactionTimeout ==
  /\ ProviderFrame
  /\ UNCHANGED pBatches
  /\ req.method = "eth_sendTransaction"
  /\ req.pc = "poll"
  /\ req.attempt = MaxAttempts
  /\ Fail(HashTimeout)
  /\ UNCHANGED <<pSession, pWindows>>

---------------------------------------------------------------------------
(* personal_sign and eth_signTypedData_v4, lines 266-405 *)

\* isStrictHex, lines 21-22: /^0x[0-9a-fA-F]*$/
isStrictHex(s) ==
  /\ Len(s) >= 2
  /\ s[1] = "0"
  /\ s[2] = "x"
  /\ \A i \in 3..Len(s) : HexVal(s[i]) # -1

\* hexToUtf8, lines 24-32, throws on an odd number of digits
HexToUtf8Throws(hex) ==
  LET h == IF Len(hex) >= 2 /\ hex[1] = "0" /\ hex[2] = "x"
             THEN SubSeq(hex, 3, Len(hex)) ELSE hex
  IN  Len(h) % 2 # 0

InvalidHexMessage == "Invalid hex message: cannot decode to UTF-8"

\* messages handed to personal_sign
MessageInputs ==
  {<<"H","i">>, <<"0","x","4","8","6","9">>, <<"0","x","a","b","c">>}

PersonalSign(message, win) ==
  /\ ProviderFrame
  /\ UNCHANGED pBatches
  /\ CanStart
  /\ pEmitted' = <<>>
  /\ UNCHANGED pSession
  /\ LET r == [StartReq("personal_sign") EXCEPT !.arg = message]
     IN  IF pSession = <<>>
           THEN req' = Reject(r, NoActiveSession) /\ pWindows' = <<>>
         ELSE IF isStrictHex(message) /\ HexToUtf8Throws(message)
           THEN /\ req' = Reject([r EXCEPT !.preWindow = win], InvalidHexMessage)
                /\ pWindows' = <<"about:blank">>
         ELSE /\ req' = [r EXCEPT !.pc = "create", !.preWindow = win,
                                  !.encoding = IF isStrictHex(message) THEN "hex" ELSE "utf8"]
              /\ pWindows' = <<"about:blank">>

\* the typed data handed to eth_signTypedData_v4: an object, a JSON string, or
\* a string JSON.parse throws on
TypedDataInputs == {"object", "json", "badjson"}

JsonSyntaxError == "SyntaxError: Unexpected token in JSON"

SignTypedData(typedData, win) ==
  /\ ProviderFrame
  /\ UNCHANGED pBatches
  /\ CanStart
  /\ pEmitted' = <<>>
  /\ UNCHANGED pSession
  /\ LET r == StartReq("eth_signTypedData_v4")
     IN  IF pSession = <<>>
           THEN req' = Reject(r, NoActiveSession) /\ pWindows' = <<>>
         ELSE IF typedData = "badjson"
           THEN /\ req' = Reject([r EXCEPT !.preWindow = win], JsonSyntaxError)
                /\ pWindows' = <<"about:blank">>
         ELSE /\ req' = [r EXCEPT !.pc = "create", !.preWindow = win]
              /\ pWindows' = <<"about:blank">>

SignIds == {"sign1"}

\* createSignRequest, part_001 lines 182-203
CreateSignRequest(res, id, rf) ==
  /\ ProviderFrame
  /\ UNCHANGED pBatches
  /\ req.method \in {"personal_sign", "eth_signTypedData_v4"}
  /\ req.pc = "create"
  /\ pSession' = AfterRefresh(pSession, rf)
  /\ IF BackendResult(res, rf) = "ok"
       THEN /\ req' = [req EXCEPT !.pc = "open", !.txId = id, !.backend = @ + 1]
            /\ UNCHANGED pEmitted
       ELSE FailAfter([req EXCEPT !.backend = @ + 1], BackendResult(res, rf))
  /\ UNCHANGED pWindows

\* the payloads GET /user/sign/{id}/status answers with (returned raw)
SignStatuses == {"pending", "signed", "rejected", "expired", "failed"}
NoSignature == ""
\* signatures accompany a signed status only, an error text a failing one
SignPayloads ==
  {p \in [status : SignStatuses, signature : {NoSignature, "0xsig"},
          finalSignature : {NoSignature, "0xfinal"}, error : {"", "user rejected"}] :
     /\ p.signature # NoSignature \/ p.finalSignature # NoSignature => p.status = "signed"
     /\ p.error # "" => p.status \in {"rejected", "expired", "failed"}}

SigningTimeout == "Signing timeout - status polling exceeded maximum attempts"
NoSignatureReturned(method) ==
  IF method = "personal_sign"
    THEN "Signing completed but no signature returned"
    ELSE "Typed data signing completed but no signature returned"

\* one iteration of waitForSignCompletion (part_001 lines 241-249) and, once it
\* returns, the reading of done.envelope.signature (lines 325-331, 389-394)
PollSign(payload, rf) ==
  /\ ProviderFrame
  /\ UNCHANGED pBatches
  /\ req.method \in {"personal_sign", "eth_signTypedData_v4"}
  /\ req.pc = "poll"
  /\ req.attempt < MaxAttempts
  /\ rf # "fail"
  /\ pSession' = AfterRefresh(pSession, rf)
  /\ UNCHANGED pWindows
  /\ LET polled == [req EXCEPT !.polls = @ + 1, !.backend = @ + 1,
                               !.signSeen = <<payload>>]
         sig == payload.signature
         err == IF payload.error # "" THEN payload.error
                ELSE "Signing " \o payload.status
     IN  CASE payload.status = "signed" /\ sig # NoSignature ->
                /\ req' = Resolve(polled, sig)
                /\ UNCHANGED pEmitted
           [] payload.status = "signed" /\ sig = NoSignature ->
                /\ req' = CatchAndRethrow(polled, NoSignatureReturned(req.method))
                /\ pEmitted' = Append(pEmitted,
                                 Event("error", <<NoSignatureReturned(req.method)>>))
           [] payload.status \in {"rejected", "expired", "failed"} ->
                /\ req' = CatchAndRethrow(polled, err)
                /\ pEmitted' = Append(pEmitted, Event("error", <<err>>))
           [] OTHER ->
                /\ req' = [polled EXCEPT !.attempt = @ + 1]
                /\ UNCHANGED pEmitted

PollSignFails(err, rf) ==
  /\ ProviderFrame
  /\ UNCHANGED pBatches
  /\ req.method \in {"personal_sign", "eth_signTypedData_v4"}
  /\ req.pc = "poll"
  /\ req.attempt < MaxAttempts
  /\ pSession' = AfterRefresh(pSession, rf)
  /\ UNCHANGED pWindows
  /\ req' = CatchAndRethrow([req EXCEPT !.polls = @ + 1, !.backend = @ + 1],
                             BackendResult(err, rf))
  /\ pEmitted' = Append(pEmitted, Event("error", <<BackendResult(err, rf)>>))

PollSignTimeout ==
  /\ ProviderFrame
  /\ UNCHANGED pBatches
  /\ req.method \in {"personal_sign", "eth_signTypedData_v4"}
  /\ req.pc = "poll"
  /\ req.attempt = MaxAttempts
  /\ Fail(SigningTimeout)
  /\ UNCHANGED <<pSession, pWindows>>

\* the sessions the send and sign flows start from
FlowSessions ==
  {Session(a, 1, FALSE, {}, "tok0") : a \in WalletAddresses}

SendTxIds == {"tx1"}

SendNext ==
  \/ \E s \in FlowSessions : UpdateSession(s)
  \/ ClearSession
  \/ \E w \in PreWindows : SendTransaction(w)
  \/ \E res \in BackendErrors \cup {"ok", MalformedCreate}, id \in SendTxIds, rf \in RefreshOutcomes :
       CreateTransaction(res, id, rf)
  \/ UserClosesPreWindow
  \/ \E how \in {"reuse", "opened", "blocked"} : OpenSigningWindow(how)
  \/ \E how \in {"reuse", "opened", "blocked"} : SnackbarRetry(how)
  \/ SnackbarImportFails
  \/ \E p \in TxPayloads, rf \in RefreshOutcomes : PollTransaction(p, rf)
  \/ \E e \in BackendErrors, rf \in RefreshOutcomes : PollTransactionFails(e, rf)
  \/ PollTransactionTimeout

SignSessions == {Session("0xWalletA", 1, FALSE, {}, "tok0")}

SignNext ==
  \/ \E s \in SignSessions : UpdateSession(s)
  \/ ClearSession
  \/ \E m \in MessageInputs, w \in PreWindows : PersonalSign(m, w)
  \/ \E t \in TypedDataInputs, w \in PreWindows : SignTypedData(t, w)
  \/ \E res \in BackendErrors \cup {"ok"}, id \in SignIds, rf \in RefreshOutcomes :
       CreateSignRequest(res, id, rf)
  \/ UserClosesPreWindow
  \/ \E how \in {"reuse", "opened", "blocked"} : OpenSigningWindow(how)
  \/ \E how \in {"reuse", "opened", "blocked"} : SnackbarRetry(how)
  \/ SnackbarImportFails
  \/ \E p \in SignPayloads, rf \in RefreshOutcomes : PollSign(p, rf)
  \/ \E e \in BackendErrors, rf \in RefreshOutcomes : PollSignFails(e, rf)
  \/ PollSignTimeout

---------------------------------------------------------------------------
(* wallet_sendCalls, lines 436-502 *)

NoBatches == [b \in {} |-> <<>>]

BatchIds == {"nyknyc_batch_1", "nyknyc_batch_2"}

\* the number of calls in the payload, and the chainId it names
CallCounts == {0, 1, 2}
BatchChainInputs == {<<"0","x","1">>, <<"0","x","a">>, <<"z","z">>}

MissingCalls == "wallet_sendCalls: missing calls"
SendCallsInvalidChain == "wallet_sendCalls: invalid chainId"
SendCallsChainMismatch == "wallet_sendCalls: chainId mismatch with active session"

Range(seq) == {seq[i] : i \in DOMAIN seq}

WalletSendCalls(n, chainId) ==
  /\ ProviderFrame
  /\ CanStart
  /\ DOMAIN pBatches # BatchIds
  /\ pEmitted' = <<>>
  /\ pWindows' = <<>>
  /\ UNCHANGED <<pSession, pBatches>>
  /\ LET r == [StartReq("wallet_sendCalls") EXCEPT !.arg = chainId, !.calls = n]
     IN  req' = IF pSession = <<>> THEN Reject(r, NoActiveSession)
               ELSE IF n = 0 THEN Reject(r, MissingCalls)
               ELSE IF ParseIntHex(chainId) = NaN THEN Reject(r, SendCallsInvalidChain)
               ELSE IF ParseIntHex(chainId) # pSession[1].chainId
                 THEN Reject(r, SendCallsChainMismatch)
               ELSE [r EXCEPT !.pc = "create"]

\* one iteration of the loop of lines 459-484: createTransaction for the next
\* call; a failure rejects the request at once
BatchCreate(res, id, rf) ==
  /\ ProviderFrame
  /\ req.method = "wallet_sendCalls"
  /\ req.pc = "create"
  /\ id \notin Range(req.created)
  /\ pSession' = AfterRefresh(pSession, rf)
  /\ UNCHANGED <<pEmitted, pWindows, pBatches>>
  /\ LET r == [req EXCEPT !.backend = @ + 1,
                          !.requested = Append(@, Len(req.created) + 1)]
     IN  req' = IF BackendResult(res, rf) # "ok" THEN Reject(r, BackendResult(res, rf))
               ELSE [r EXCEPT !.created = Append(@, id),
                              !.pc = IF Len(req.created) + 1 = req.calls THEN "open" ELSE @]

\* a slip: only the transaction whose page was opened is remembered
StoreBatch_FirstOnly(r, id) ==
  /\ pBatches' = [b \in DOMAIN pBatches \cup {id} |->
                    IF b = id THEN <<r.created[1]>> ELSE pBatches[b]]
  /\ req' = Resolve([r EXCEPT !.batchId = id], id)

\* a slip: the map is replaced by the new entry
StoreBatch_Replaces(r, id) ==
  /\ pBatches' = [b \in {id} |-> r.created]
  /\ req' = Resolve([r EXCEPT !.batchId = id], id)

\* lines 494-501: a fresh batch id is mapped to the created ids and returned
StoreBatch(r, id) ==
  /\ pBatches' = [b \in DOMAIN pBatches \cup {id} |->
                    IF b = id THEN r.created ELSE pBatches[b]]
  /\ req' = Resolve([r EXCEPT !.batchId = id], id)

\* openSigningWindow(firstUrl, baseUrl): no pre-opened window is passed
BatchOpenWindow(opened, id) ==
  /\ ProviderFrame
  /\ req.method = "wallet_sendCalls"
  /\ req.pc = "open"
  /\ id \in BatchIds \ DOMAIN pBatches
  /\ pWindows' = Append(pWindows, "review:" \o req.created[1])
  /\ UNCHANGED <<pSession, pEmitted>>
  /\ IF opened THEN StoreBatch(req, id)
     ELSE req' = [req EXCEPT !.pc = "snackbar"] /\ UNCHANGED pBatches

BatchSnackbarRetry(opened, id) ==
  /\ ProviderFrame
  /\ req.method = "wallet_sendCalls"
  /\ req.pc = "snackbar"
  /\ id \in BatchIds \ DOMAIN pBatches
  /\ pWindows' = Append(pWindows, "review:" \o req.created[1])
  /\ UNCHANGED <<pSession, pEmitted>>
  /\ IF opened THEN StoreBatch(req, id)
     ELSE req' = Reject(req, WindowBlocked) /\ UNCHANGED pBatches

BatchSnackbarImportFails ==
  /\ ProviderFrame
  /\ req.method = "wallet_sendCalls"
  /\ req.pc = "snackbar"
  /\ req' = Reject(req, WindowFailed)
  /\ UNCHANGED <<pSession, pEmitted, pWindows, pBatches>>

---------------------------------------------------------------------------
(* wallet_getCallsReceipt, lines 527-606 *)

UnknownBatch == "wallet_getCallsReceipt: unknown id"

\* a transaction has one hash, reported once it is broadcast
HashOfTx(tid) == "0xhash_" \o tid

ExecutionStatuses == {"success", "failed", "unknown"}

\* the payloads GET /transactions/{tid}/status answers with for a member
BatchPayloads(tid) ==
  [hash : {NoHash, HashOfTx(tid)},
   status : {Str(W_pending), Str(W_broadcasted), Str(W_completed), Str(W_failed)},
   error : {""},
   execution_status : ExecutionStatuses \cup {"undefined"}]

\* (s as any).execution_status, read from a normalized status
ExecutionStatus(s) ==
  IF "execution_status" \in DOMAIN s THEN s.execution_status ELSE "undefined"

\* a slip: some in place of every
AllHaveHash_Some(statuses) == \E i \in DOMAIN statuses : HasHash(statuses[i])

\* line 560
AllHaveHash(statuses) == \A i \in DOMAIN statuses : HasHash(statuses[i])

\* a slip: receipts are built as soon as every member has a hash
CanDeriveOutcome_Always(statuses) == TRUE

\* lines 568-573
CanDeriveOutcome(statuses) ==
  \A i \in DOMAIN statuses :
    \/ ExecutionStatus(statuses[i]) # "undefined"
    \/ statuses[i].status = Str(W_completed)
    \/ statuses[i].status = Str(W_failed)

\* lines 584-588
StatusHex(s) ==
  IF ExecutionStatus(s) = "failed" \/ s.status = Str(W_failed) THEN "0x0"
  ELSE IF ExecutionStatus(s) = "success" \/ s.status = Str(W_completed) THEN "0x1"
  ELSE "0x0"

Pending == [status |-> "PENDING", hasReceipts |-> FALSE, receipts |-> <<>>]

\* lines 559-605
CallsReceipt(statuses) ==
  IF ~ AllHaveHash(statuses) THEN Pending
  ELSE IF ~ CanDeriveOutcome(statuses) THEN Pending
  ELSE [status |-> "CONFIRMED", hasReceipts |-> TRUE,
        receipts |-> [i \in DOMAIN statuses |->
                        [status |-> StatusHex(statuses[i]),
                         transactionHash |-> statuses[i].transaction_hash]]]

WalletGetCallsReceipt(id) ==
  /\ ProviderFrame
  /\ CanStart
  /\ pEmitted' = <<>>
  /\ pWindows' = <<>>
  /\ UNCHANGED <<pSession, pBatches>>
  /\ LET r == [StartReq("wallet_getCallsReceipt") EXCEPT !.batchId = id]
     IN  req' = IF pSession = <<>> THEN Reject(r, NoActiveSession)
               ELSE IF id \notin DOMAIN pBatches THEN Reject(r, UnknownBatch)
               ELSE [r EXCEPT !.pc = "gather", !.loopToken = pSession[1].accessToken]

\* the status requests of Promise.all, taken in member order; with the last
\* one the result is built
GatherStatus(payload, rf) ==
  /\ ProviderFrame
  /\ req.method = "wallet_getCallsReceipt"
  /\ req.pc = "gather"
  /\ rf # "fail"
  /\ LET txIds == pBatches[req.batchId]
         i == Len(req.gathered) + 1
         statuses == Append(req.gathered, normalizeTransactionStatus(payload))
         r == [req EXCEPT !.gathered = statuses, !.backend = @ + 1,
                          !.hashless = @ \/ payload.hash = NoHash]
     IN  /\ payload \in BatchPayloads(txIds[i])
         /\ req' = IF i = Len(txIds)
                     THEN Resolve([r EXCEPT !.receipt = CallsReceipt(statuses)], "receipt")
                     ELSE r
  /\ pSession' = AfterRefresh(pSession, rf)
  /\ UNCHANGED <<pEmitted, pWindows, pBatches>>

\* one of the status requests fails: Promise.all rejects
GatherFails(err, rf) ==
  /\ ProviderFrame
  /\ req.method = "wallet_getCallsReceipt"
  /\ req.pc = "gather"
  /\ req' = Reject([req EXCEPT !.backend = @ + 1], BackendResult(err, rf))
  /\ pSession' = AfterRefresh(pSession, rf)
  /\ UNCHANGED <<pEmitted, pWindows, pBatches>>

\* disconnect(), lines 700-704
ProviderDisconnect ==
  /\ ProviderFrame
  /\ CanStart
  /\ pSession' = <<>>
  /\ pBatches' = NoBatches
  /\ pEmitted' = <<Event("disconnect", <<>>)>>
  /\ pWindows' = <<>>
  /\ req' = ReqIdle

AllBatchPayloads == UNION {BatchPayloads(t) : t \in TxIds}

BatchNext ==
  \/ \E s \in FlowSessions : UpdateSession(s)
  \/ ProviderDisconnect
  \/ \E n \in CallCounts, c \in BatchChainInputs : WalletSendCalls(n, c)
  \/ \E res \in BackendErrors \cup {"ok"}, id \in TxIds, rf \in RefreshOutcomes :
       BatchCreate(res, id, rf)
  \/ \E opened \in BOOLEAN, id \in BatchIds : BatchOpenWindow(opened, id)
  \/ \E opened \in BOOLEAN, id \in BatchIds : BatchSnackbarRetry(opened, id)
  \/ BatchSnackbarImportFails
  \/ \E id \in BatchIds : WalletGetCallsReceipt(id)
  \/ \E p \in AllBatchPayloads, rf \in RefreshOutcomes : GatherStatus(p, rf)
  \/ \E e \in BackendErrors, rf \in RefreshOutcomes : GatherFails(e, rf)

---------------------------------------------------------------------------
(* request(): the methods answered from the session alone, lines 95-167 and
   415-426 *)

\* the text form of the accounts array eth_accounts answers with
AccountsOf(session) ==
  IF session = <<>> THEN "[]" ELSE "[" \o session[1].walletAddress \o "]"

\* eth_accounts / eth_requestAccounts: getAccounts(), lines 152-157
GetAccounts(method) ==
  /\ ProviderFrame
  /\ CanStart
  /\ req' = Resolve(StartReq(method), AccountsOf(pSession))
  /\ pEmitted' = <<>>
  /\ pWindows' = <<>>
  /\ UNCHANGED <<pSession, pBatches>>

\* eth_chainId: getChainId(), lines 162-167
GetChainId ==
  /\ ProviderFrame
  /\ CanStart
  /\ LET r == StartReq("eth_chainId")
     IN  req' = IF pSession = <<>> THEN Reject(r, NoActiveSession)
               ELSE Resolve([r EXCEPT !.result = HexOf(pSession[1].chainId)], "chainId")
  /\ pEmitted' = <<>>
  /\ pWindows' = <<>>
  /\ UNCHANGED <<pSession, pBatches>>

\* wallet_getCapabilities, lines 415-426: an object with the one key chainHex
WalletGetCapabilities ==
  /\ ProviderFrame
  /\ CanStart
  /\ LET r == StartReq("wallet_getCapabilities")
     IN  req' = IF pSession = <<>> THEN Reject(r, NoActiveSession)
               ELSE Resolve([r EXCEPT !.result = HexOf(pSession[1].chainId)], "capabilities")
  /\ pEmitted' = <<>>
  /\ pWindows' = <<>>
  /\ UNCHANGED <<pSession, pBatches>>

UndefinedParams == "TypeError: Cannot read properties of undefined (reading 'chainId')"

\* request({method: 'wallet_switchEthereumChain'}) with no parameter object:
\* line 118 reads params[0].chainId before switchChain is entered
SwitchChainNoParams ==
  /\ ProviderFrame
  /\ CanStart
  /\ req' = Reject(StartReq("wallet_switchEthereumChain"), UndefinedParams)
  /\ pEmitted' = <<>>
  /\ pWindows' = <<>>
  /\ UNCHANGED <<pSession, pBatches>>

\* every method of request(), each from any session state. The send and sign
\* flows are followed up to a failing answer of their create request, and
\* batches have one call whose window opens at once: the remaining steps of
\* these flows are those of SendNext, SignNext and BatchNext
RequestBackendErrors == {NetworkError, validateApiResponse(500)}

RequestNext ==
  \/ \E s \in FlowSessions : UpdateSession(s)
  \/ ClearSession
  \/ ProviderDisconnect
  \/ \E m \in {"eth_accounts", "eth_requestAccounts"} : GetAccounts(m)
  \/ GetChainId
  \/ WalletGetCapabilities
  \/ SwitchChainNoParams
  \/ \E c \in ChainHexInputs : SwitchChain(c)
  \/ \E c \in ChainHexInputs : AddEthereumChain(c)
  \/ \E w \in PreWindows : SendTransaction(w)
  \/ \E m \in MessageInputs, w \in PreWindows : PersonalSign(m, w)
  \/ \E t \in TypedDataInputs, w \in PreWindows : SignTypedData(t, w)
  \/ \E res \in RequestBackendErrors, id \in SendTxIds : CreateTransaction(res, id, "none")
  \/ \E res \in RequestBackendErrors, id \in SignIds : CreateSignRequest(res, id, "none")
  \/ \E n \in {0, 1}, c \in BatchChainInputs : WalletSendCalls(n, c)
  \/ \E res \in RequestBackendErrors \cup {"ok"}, id \in SendTxIds : BatchCreate(res, id, "none")
  \/ \E id \in BatchIds : BatchOpenWindow(TRUE, id)
  \/ \E id \in BatchIds : WalletGetCallsReceipt(id)
  \/ \E p \in AllBatchPayloads : GatherStatus(p, "none")
  \/ \E e \in RequestBackendErrors : GatherFails(e, "none")

---------------------------------------------------------------------------
(* The connector: state, session restore *)

HostIdle ==
  /\ host = <<>>
  /\ calls = <<>>

\* what the connector's actions leave alone
ConnFrame ==
  UNCHANGED <<fetchVars, statusVars, validityVars, pWindows, req, listenerVars, hostVars,
              storageVars, refreshVars, pollVars, receiptVars, pkceVars>>

CryptoUnavailable ==
  "Web Crypto API is not available. NYKNYC connector requires a secure context (HTTPS)."
NoCachedSession == "No cached session available for reconnection"
NotConnected == "Not connected"

\* the connector closure's state (connector.ts lines 27-34), the persisted
\* session record, and the record of what the connect() call in flight did
ConnInit(crypto, stored) ==
  [cryptoOk |-> crypto, stored |-> stored, session |-> <<>>,
   managers |-> FALSE, provider |-> FALSE, setupComplete |-> FALSE,
   attached |-> FALSE,
   pc |-> "idle", reconnecting |-> FALSE, outcome |-> "pending", error |-> "",
   startSession |-> <<>>, restoredNow |-> FALSE, oauthStarted |-> FALSE,
   windows |-> <<>>, attachedNow |-> FALSE, preWindow |-> "none",
   hostEvents |-> <<>>]

\* the openAuthWindow promise and the AuthFlowManager call around it
AuthIdle ==
  [pc |-> "idle", pending |-> <<>>, expected |-> "", resolved |-> FALSE,
   listening |-> FALSE, timer |-> FALSE, polling |-> "none", attempt |-> 0,
   settles |-> <<>>, late |-> 0, code |-> "", state |-> "", exchanges |-> <<>>]

ConnIdle ==
  /\ conn = ConnInit(TRUE, <<>>)
  /\ auth = AuthIdle

\* persisted records the connector may find: one still valid, one expired
StoredSamples ==
  {<<>>,
   <<Session("0xWalletA", 1, TRUE, {1, 10}, "tok0")>>,
   <<[Session("0xWalletA", 1, TRUE, {1, 10}, "tok0") EXCEPT !.expiresAt = 0]>>}

ConnDraw ==
  /\ conn \in {ConnInit(c, st) : c \in BOOLEAN, st \in StoredSamples}
  /\ auth = AuthIdle

\* what the backend answers during a restore
RestoreEnvs == [verify : {"off", "invalid"}, refresh : {"ok", "fail"}]

\* SessionManager.restore / attemptRefresh, lines 57-134: the session held in
\* memory afterwards, which is also what storage holds afterwards
Restore(stored, env, now) ==
  IF stored = <<>> THEN <<>>
  ELSE IF isSessionValid(stored, DefaultBufferMinutes, now) /\ env.verify # "invalid"
    THEN stored
  ELSE IF env.refresh = "ok"
    THEN <<applyRefresh(stored[1], ResponseWith("tok1"), now)>>
  ELSE <<>>

\* getProvider() with no provider yet and crypto support present, lines
\* 311-330: the provider is constructed and the session restored into it
ProviderCreated(c, restored) ==
  [c EXCEPT !.managers = TRUE, !.provider = TRUE, !.stored = restored,
            !.session = restored, !.restoredNow = @ \/ restored # <<>>]

RestoredIntoProvider(restored) ==
  IF restored = <<>>
    THEN UNCHANGED <<pSession, pEmitted>>
    ELSE /\ pSession' = restored
         /\ pEmitted' = pEmitted \o UpdateSessionEvents(pSession, restored[1])

\* the catch block of connect(), lines 247-262: authFlowManager.cleanup() and
\* rethrow
ConnFailed(c, err) == [c EXCEPT !.pc = "done", !.outcome = "rejected", !.error = err]

\* eventManager.attach unless attached
Attached(c) == [c EXCEPT !.attached = TRUE, !.attachedNow = @ \/ ~ c.attached]

---------------------------------------------------------------------------
(* connect(), setup(), getProvider(), disconnect() *)

ConnStart(isReconnecting) ==
  /\ ConnFrame
  /\ conn.pc \in {"idle", "done"}
  /\ conn' = [conn EXCEPT !.pc = IF conn.setupComplete THEN "getProvider" ELSE "setup",
                          !.reconnecting = isReconnecting,
                          !.outcome = "pending", !.error = "",
                          !.startSession = conn.session, !.restoredNow = FALSE,
                          !.oauthStarted = FALSE, !.windows = <<>>,
                          !.attachedNow = FALSE, !.preWindow = "none",
                          !.hostEvents = <<>>]
  /\ auth' = [AuthIdle EXCEPT !.pending = auth.pending]
  /\ pEmitted' = <<>>
  /\ UNCHANGED <<pSession, pBatches>>

\* setup(), lines 190-211: initializeManagers, getProvider; an error is
\* swallowed and leaves the setup incomplete
SetupGetProvider(env) ==
  /\ ConnFrame
  /\ conn.pc = "setup"
  /\ UNCHANGED <<auth, pBatches>>
  /\ LET restored == Restore(conn.stored, env, clockNow)
         next(c) == IF c.session # <<>>
                      THEN [c EXCEPT !.setupComplete = TRUE, !.pc = "getProvider"]
                      ELSE [c EXCEPT !.pc = "setupRestore"]
     IN  IF conn.provider
           THEN /\ conn' = next([conn EXCEPT !.managers = TRUE])
                /\ UNCHANGED <<pSession, pEmitted>>
         ELSE IF ~ conn.cryptoOk
           THEN /\ conn' = [conn EXCEPT !.managers = TRUE, !.pc = "getProvider"]
                /\ UNCHANGED <<pSession, pEmitted>>
         ELSE /\ conn' = next(ProviderCreated(conn, restored))
              /\ RestoredIntoProvider(restored)

\* setup(), lines 201-213: no session yet, restore once more
SetupRestore(env) ==
  /\ ConnFrame
  /\ conn.pc = "setupRestore"
  /\ LET restored == Restore(conn.stored, env, clockNow)
     IN  conn' = [conn EXCEPT !.stored = restored, !.session = restored,
                              !.restoredNow = @ \/ restored # <<>>,
                              !.setupComplete = TRUE, !.pc = "getProvider"]
  /\ UNCHANGED <<auth, pSession, pEmitted, pBatches>>

\* connect(), line 240: getProvider()
ConnGetProvider(env) ==
  /\ ConnFrame
  /\ conn.pc = "getProvider"
  /\ UNCHANGED pBatches
  /\ LET restored == Restore(conn.stored, env, clockNow)
     IN  IF conn.provider
           THEN /\ conn' = [conn EXCEPT !.pc = "flow"]
                /\ UNCHANGED <<auth, pSession, pEmitted>>
         ELSE IF ~ conn.cryptoOk
           THEN /\ conn' = ConnFailed([conn EXCEPT !.managers = TRUE], CryptoUnavailable)
                /\ auth' = [auth EXCEPT !.pending = <<>>]
                /\ UNCHANGED <<pSession, pEmitted>>
         ELSE /\ conn' = [ProviderCreated(conn, restored) EXCEPT !.pc = "flow"]
              /\ RestoredIntoProvider(restored)
              /\ UNCHANGED auth

\* a slip: with no cached account the reconnection falls back to the OAuth flow
Reconnect_FallsBackToOAuth ==
  /\ ConnFrame
  /\ conn.pc = "flow"
  /\ conn.reconnecting
  /\ UNCHANGED <<pSession, pEmitted, pBatches>>
  /\ IF conn.session = <<>>
       THEN /\ conn' = [conn EXCEPT !.pc = "oauth", !.oauthStarted = TRUE,
                                    !.windows = Append(@, "about:blank"),
                                    !.preWindow = "open"]
            /\ auth' = [auth EXCEPT !.pc = "open",
                                    !.pending = <<[state |-> "S1", codeVerifier |-> "V1"]>>,
                                    !.expected = "S1"]
       ELSE /\ conn' = [Attached(conn) EXCEPT !.pc = "done", !.outcome = "resolved"]
            /\ UNCHANGED auth

\* handleReconnection, lines 60-112 (no chainId parameter)
Reconnect ==
  /\ ConnFrame
  /\ conn.pc = "flow"
  /\ conn.reconnecting
  /\ UNCHANGED <<pSession, pEmitted, pBatches>>
  /\ IF conn.session = <<>>
       THEN /\ conn' = ConnFailed(conn, NoCachedSession)
            /\ auth' = [auth EXCEPT !.pending = <<>>]
       ELSE /\ conn' = [Attached(conn) EXCEPT !.pc = "done", !.outcome = "resolved"]
            /\ UNCHANGED auth

PkceSamples ==
  {[state |-> "S1", codeVerifier |-> "V1"], [state |-> "S2", codeVerifier |-> "V2"]}

\* handleNormalConnection, lines 117-175 up to the call of openAuthWindow:
\* eth_requestAccounts answers from the provider's session; with none, a
\* window is pre-opened and AuthFlowManager.initiate stores the PKCE triple
NormalConnect(win, pkce) ==
  /\ ConnFrame
  /\ conn.pc = "flow"
  /\ ~ conn.reconnecting
  /\ UNCHANGED <<pSession, pEmitted, pBatches>>
  /\ IF pSession # <<>>
       THEN /\ conn' = IF conn.session = <<>>
                         THEN ConnFailed(Attached(conn), NotConnected)
                         ELSE [Attached(conn) EXCEPT !.pc = "done", !.outcome = "resolved"]
            /\ auth' = IF conn.session = <<>> THEN [auth EXCEPT !.pending = <<>>] ELSE auth
       ELSE /\ conn' = [conn EXCEPT !.pc = "oauth", !.oauthStarted = TRUE,
                                    !.windows = Append(@, "about:blank"),
                                    !.preWindow = win]
            /\ auth' = [auth EXCEPT !.pc = "open", !.pending = <<pkce>>,
                                    !.expected = pkce.state]

\* disconnect(), lines 264-286
ConnDisconnect(env) ==
  /\ ConnFrame
  /\ conn.pc \in {"idle", "done"}
  /\ conn.provider \/ conn.cryptoOk
  /\ conn' = [conn EXCEPT !.managers = @ \/ ~ conn.provider, !.provider = TRUE,
                          !.session = <<>>, !.stored = <<>>, !.attached = FALSE,
                          !.pc = "idle", !.outcome = "pending", !.error = "",
                          !.startSession = <<>>, !.restoredNow = FALSE,
                          !.oauthStarted = FALSE, !.windows = <<>>,
                          !.attachedNow = FALSE, !.preWindow = "none",
                          !.hostEvents = <<"disconnect">>]
  /\ pSession' = <<>>
  /\ pBatches' = NoBatches
  /\ pEmitted' = <<Event("disconnect", <<>>)>>
  /\ UNCHANGED auth

---------------------------------------------------------------------------
(* openAuthWindow, part_002 lines 249-395 *)

AuthWindowFailed ==
  "Failed to open authentication window. Please allow popups for this site."
AuthTimedOut == "Authentication timed out (5 minutes)"
PollTimedOut == "Authentication timeout: polling exceeded maximum duration (5 minutes)"
MissingCode == "Invalid response: missing authorization code"
AuthenticationFailed == "Authentication failed"
AuthenticationExpired == "Authentication request expired"
ImportFailed == "Failed to fetch dynamically imported module"
NetworkTypeError == "TypeError: Failed to fetch"

PollAuthMaxAttempts == 150

Resolution(code, state) == [kind |-> "resolve", code |-> code, state |-> state, error |-> ""]
Rejection(err) == [kind |-> "reject", code |-> "", state |-> "", error |-> err]

\* a slip: a handler settles without looking at the flag
MaySettle_Always(a) == TRUE

\* the `if (!resolved)` every handler starts with
MaySettle(a) == ~ a.resolved

\* a slip: cleanup() ends the polling loop
Settled_AbortsPolling(a, rec) ==
  [a EXCEPT !.resolved = TRUE, !.listening = FALSE, !.timer = FALSE,
            !.settles = Append(@, rec),
            !.polling = IF @ = "running" THEN "ended" ELSE @]

\* resolved = true; cleanup(); resolve(...) or reject(...)
Settled(a, rec) ==
  [a EXCEPT !.resolved = TRUE, !.listening = FALSE, !.timer = FALSE,
            !.settles = Append(@, rec)]

\* a slip: the catch block of connect() does not call cleanup()
Deliver_KeepsPending(a, rec) ==
  IF Len(a.settles) # 0
    THEN auth' = Settled(a, rec) /\ UNCHANGED conn
  ELSE IF rec.kind = "resolve"
    THEN /\ auth' = [Settled(a, rec) EXCEPT !.pc = "exchange", !.code = rec.code,
                                            !.state = rec.state]
         /\ UNCHANGED conn
  ELSE /\ auth' = [Settled(a, rec) EXCEPT !.pc = "done"]
       /\ conn' = ConnFailed(conn, rec.error)

\* what a call of resolve/reject does to the caller: the first one continues
\* AuthFlowManager.initiate (complete, or the rejection that reaches the
\* catch block of connect()); a later one is ignored by the promise
Deliver(a, rec) ==
  IF Len(a.settles) # 0
    THEN auth' = Settled(a, rec) /\ UNCHANGED conn
  ELSE IF rec.kind = "resolve"
    THEN /\ auth' = [Settled(a, rec) EXCEPT !.pc = "exchange", !.code = rec.code,
                                            !.state = rec.state]
         /\ UNCHANGED conn
  ELSE /\ auth' = [Settled(a, rec) EXCEPT !.pc = "done", !.pending = <<>>]
       /\ conn' = ConnFailed(conn, rec.error)

\* lines 262-281: the pre-opened window is navigated, or window.open is
\* called; with no window the promise is rejected and nothing is registered.
\* Lines 386-394: otherwise the listener, the timer and the polling start
AuthOpenWindow(how) ==
  /\ ConnFrame
  /\ auth.pc = "open"
  /\ how \in {"opened", "blocked"} \cup (IF conn.preWindow = "open" THEN {"reuse"} ELSE {})
  /\ UNCHANGED <<pSession, pEmitted, pBatches>>
  /\ LET c == IF how = "reuse" THEN conn ELSE [conn EXCEPT !.windows = Append(@, "auth")]
     IN  IF how = "blocked"
           THEN /\ auth' = [auth EXCEPT !.pc = "done", !.pending = <<>>,
                                        !.settles = Append(@, Rejection(AuthWindowFailed))]
                /\ conn' = ConnFailed(c, AuthWindowFailed)
           ELSE /\ auth' = [auth EXCEPT !.pc = "waiting", !.listening = TRUE,
                                        !.timer = TRUE, !.polling = "running"]
                /\ conn' = c

\* window messages: the origin, the type, whether code and state are strings
AuthMessages ==
  [origin : {"expected", "other"},
   type : {"NYKNYC_AUTH_SUCCESS", "NYKNYC_AUTH_ERROR"},
   wellTyped : BOOLEAN,
   code : {"codeM"},
   state : {"S1", "evil"}]

\* onMessage, lines 291-318
AuthPostMessage(msg) ==
  /\ ConnFrame
  /\ auth.listening
  /\ UNCHANGED <<pSession, pEmitted, pBatches>>
  /\ IF /\ msg.origin = "expected"
        /\ msg.type = "NYKNYC_AUTH_SUCCESS"
        /\ msg.wellTyped
        /\ MaySettle(auth)
       THEN Deliver(auth, Resolution(msg.code, msg.state))
       ELSE UNCHANGED <<auth, conn>>

\* what one iteration of pollAuthStatus (part_001 lines 549-631) meets
PollContinues == {"pending", "http5xx", "network"}
PollThrows == {"error", "expired", "nocode"}

PollError(result) ==
  CASE result = "error" -> AuthenticationFailed
    [] result = "expired" -> AuthenticationExpired
    [] result = "nocode" -> MissingCode
    [] OTHER -> NetworkTypeError

\* startPollingFallback, lines 325-354, once pollAuthStatus has returned or
\* thrown
PollEnded(a, rec) ==
  IF MaySettle(a)
    THEN Deliver([a EXCEPT !.polling = "ended"], rec)
    ELSE auth' = [a EXCEPT !.polling = "ended", !.late = 1] /\ UNCHANGED conn

AuthPoll(result) ==
  /\ ConnFrame
  /\ auth.polling = "running"
  /\ auth.attempt < PollAuthMaxAttempts
  /\ UNCHANGED <<pSession, pEmitted, pBatches>>
  /\ IF result = "completed"
       THEN PollEnded(auth, Resolution("codeP", auth.expected))
     ELSE IF result \in PollThrows
            \/ (result = "network" /\ auth.attempt = PollAuthMaxAttempts - 1)
       THEN PollEnded(auth, Rejection(PollError(result)))
     ELSE auth' = [auth EXCEPT !.attempt = @ + 1] /\ UNCHANGED conn

\* the loop of pollAuthStatus ends after maxAttempts iterations (line 638)
AuthPollExhausted ==
  /\ ConnFrame
  /\ auth.polling = "running"
  /\ auth.attempt = PollAuthMaxAttempts
  /\ UNCHANGED <<pSession, pEmitted, pBatches>>
  /\ PollEnded(auth, Rejection(PollTimedOut))

\* the dynamic import of the api module fails (line 333)
AuthImportFails ==
  /\ ConnFrame
  /\ auth.polling = "running"
  /\ auth.attempt = 0
  /\ UNCHANGED <<pSession, pEmitted, pBatches>>
  /\ PollEnded(auth, Rejection(ImportFailed))

\* the 5-minute timer fires, lines 360-371
AuthTimeout ==
  /\ ConnFrame
  /\ auth.timer
  /\ UNCHANGED <<pSession, pEmitted, pBatches>>
  /\ IF MaySettle(auth)
       THEN Deliver([auth EXCEPT !.timer = FALSE], Rejection(AuthTimedOut))
       ELSE auth' = [auth EXCEPT !.timer = FALSE] /\ UNCHANGED conn

---------------------------------------------------------------------------
(* AuthFlowManager.complete, SessionManager.ts lines 261-324 *)

MissingPkce == "Missing PKCE parameters. Authentication session may have expired."
ExchangeFailed == "Token exchange failed"
UserInfoFailed == "Failed to fetch user info"
PersistFailed == "Failed to persist session"

\* lines 268-286: the stored PKCE triple is read and the code is exchanged
\* with its verifier
AuthExchange(ok) ==
  /\ ConnFrame
  /\ auth.pc = "exchange"
  /\ UNCHANGED <<pSession, pEmitted, pBatches>>
  /\ IF auth.pending = <<>>
       THEN /\ auth' = [auth EXCEPT !.pc = "done"]
            /\ conn' = ConnFailed(conn, MissingPkce)
       ELSE LET sent == [auth EXCEPT !.exchanges =
                           Append(@, [code |-> auth.code,
                                      codeVerifier |-> auth.pending[1].codeVerifier])]
            IN  IF ok
                  THEN auth' = [sent EXCEPT !.pc = "userinfo"] /\ UNCHANGED conn
                  ELSE /\ auth' = [sent EXCEPT !.pc = "done", !.pending = <<>>]
                       /\ conn' = ConnFailed(conn, ExchangeFailed)

\* the sessions the identity endpoint describes
AuthSessions == {Session("0xWalletB", 10, FALSE, {}, "tokA")}

\* lines 288-307: getUserInfo, then sessionManager.set(session)
AuthUserInfo(ok, session) ==
  /\ ConnFrame
  /\ auth.pc = "userinfo"
  /\ UNCHANGED <<pSession, pEmitted, pBatches>>
  /\ IF ok
       THEN /\ auth' = [auth EXCEPT !.pc = "persist"]
            /\ conn' = [conn EXCEPT !.session = <<session>>]
       ELSE /\ auth' = [auth EXCEPT !.pc = "done", !.pending = <<>>]
            /\ conn' = ConnFailed(conn, UserInfoFailed)

\* lines 308-323: persist and remove the PKCE triple; then, back in
\* handleNormalConnection (connector.ts lines 137-175), the provider gets the
\* session, 'connect' is emitted to the host and the listeners are attached
AuthPersist(ok) ==
  /\ ConnFrame
  /\ auth.pc = "persist"
  /\ UNCHANGED pBatches
  /\ auth' = [auth EXCEPT !.pc = "done", !.pending = <<>>]
  /\ IF ok
       THEN /\ conn' = [Attached([conn EXCEPT !.stored = conn.session,
                                              !.hostEvents = Append(@, "connect")])
                          EXCEPT !.pc = "done", !.outcome = "resolved"]
            /\ pSession' = conn.session
            /\ pEmitted' = pEmitted \o UpdateSessionEvents(pSession, conn.session[1])
       ELSE /\ conn' = ConnFailed(conn, PersistFailed)
            /\ UNCHANGED <<pSession, pEmitted>>

ConnectNext ==
  \/ \E r \in BOOLEAN : ConnStart(r)
  \/ \E env \in RestoreEnvs : SetupGetProvider(env)
  \/ \E env \in RestoreEnvs : SetupRestore(env)
  \/ \E env \in RestoreEnvs : ConnGetProvider(env)
  \/ Reconnect
  \/ \E w \in PreWindows, pk \in PkceSamples : NormalConnect(w, pk)
  \/ \E env \in RestoreEnvs : ConnDisconnect(env)
  \/ \E how \in {"reuse", "opened", "blocked"} : AuthOpenWindow(how)
  \/ \E m \in AuthMessages : AuthPostMessage(m)
  \/ \E r \in PollContinues \cup PollThrows \cup {"completed"} : AuthPoll(r)
  \/ AuthPollExhausted
  \/ AuthImportFails
  \/ AuthTimeout
  \/ \E ok \in BOOLEAN : AuthExchange(ok)
  \/ \E ok \in BOOLEAN, s \in AuthSessions : AuthUserInfo(ok, s)
  \/ \E ok \in BOOLEAN : AuthPersist(ok)

---------------------------------------------------------------------------
(* The connector with several of the host's calls in flight.  A call runs   *)
(* without interruption up to its next await of I/O: the storage read and  *)
(* backend calls of SessionManager.restore, the OAuth flow of               *)
(* AuthFlowManager.initiate, and the storage removal of                     *)
(* SessionManager.remove.                                                   *)

MaxCalls == 2
CallIds == 1 .. MaxCalls

\* config.chains of the host, and the chainId arguments of connect()
\* (0: none given)
ConfiguredChains == {1, 10, 137}
ConnectChains == {0, 10, 137, 5}
ReconnectChains == {0, 137}

\* the closure's variables (connector.ts lines 27-34), SessionManager.session,
\* EventManager.listeners (bound: the attach() that filled it, 0 when empty),
\* the persisted record, and a storage removal under way
HostInit(crypto, stored) ==
  [cryptoOk |-> crypto, stored |-> stored, session |-> <<>>, aliased |-> FALSE,
   sessionManagers |-> 0, providers |-> 0, setupComplete |-> FALSE,
   bound |-> 0, removing |-> FALSE]

NoCall ==
  [op |-> "none", pc |-> "idle", phase |-> "main", chainId |-> 0,
   reconnecting |-> FALSE, outcome |-> "pending", error |-> "",
   provider |-> 0, accounts |-> <<>>, chain |-> 0, authorized |-> FALSE,
   cachedAtStart |-> FALSE, providerAtStart |-> "none", alone |-> TRUE,
   oauthStarted |-> FALSE, windows |-> <<>>,
   switchTried |-> FALSE, accountsAtSwitch |-> <<>>, sessionAtSwitch |-> <<>>,
   chainBefore |-> 0, switchError |-> <<>>, registered |-> {},
   hostEvents |-> <<>>, batchesAtStart |-> 0, attachedAtStart |-> FALSE,
   refreshing |-> <<>>]

HostDraw ==
  /\ host \in {HostInit(c, st) : c \in BOOLEAN, st \in StoredSamples}
  /\ calls = [i \in CallIds |-> NoCall]

\* the connector, its provider and what one step emitted (e: on the provider,
\* he: on the host's config.emitter) and opened
World ==
  [h |-> host, s |-> pSession, l |-> pListeners, b |-> pBatches,
   e |-> <<>>, win |-> <<>>, he |-> <<>>]

InFlight(c) == c.pc \notin {"idle", "done"}

\* F of the value of v, with v evaluated once
Once(v, F(_)) == CHOOSE r \in {F(x) : x \in {v}} : TRUE

CallSettled(c, outcome, err) == [c EXCEPT !.pc = "done", !.outcome = outcome, !.error = err]

\* a slip: the managers are constructed on every call
initializeManagers_Always(h) == [h EXCEPT !.sessionManagers = @ + 1]

\* initializeManagers, lines 45-55
initializeManagers(h) == [h EXCEPT !.sessionManagers = IF @ = 0 THEN 1 ELSE @]

\* ---- EventManager, SessionManager.ts lines 344-420

ConnectorHandlers ==
  [accountsChanged |-> "onAccountsChanged", chainChanged |-> "onChainChanged",
   disconnect |-> "onDisconnect"]

\* the connector's handlers registered on the provider for an event
HandlersOn(listeners, event) ==
  IF event \in DOMAIN listeners
    THEN {k \in DOMAIN listeners[event] : listeners[event][k].fn = ConnectorHandlers[event]}
    ELSE {}

BoundListener(event, g) == Listener(ConnectorHandlers[event], g, FALSE)

\* attach(provider, connector), lines 355-380: bind() makes three new functions
attach(w0) ==
  Once(w0, LAMBDA w :
  IF w.h.bound # 0 THEN w
  ELSE LET g == 1 + Cardinality(HandlersOn(w.l, "disconnect"))
       IN  [w EXCEPT !.h.bound = g,
                     !.l = on(on(on(w.l, "accountsChanged", BoundListener("accountsChanged", g)),
                                 "chainChanged", BoundListener("chainChanged", g)),
                              "disconnect", BoundListener("disconnect", g))])

\* a slip: the stored references are cleared, the provider keeps the listeners
detach_ClearsOnly(w0) == Once(w0, LAMBDA w : [w EXCEPT !.h.bound = 0])

\* detach(provider), lines 387-412
detach(w0) ==
  Once(w0, LAMBDA w :
  IF w.h.bound = 0 THEN w
  ELSE [w EXCEPT !.h.bound = 0,
                 !.l = removeListener(removeListener(removeListener(w.l,
                           "accountsChanged", BoundListener("accountsChanged", w.h.bound)),
                           "chainChanged", BoundListener("chainChanged", w.h.bound)),
                           "disconnect", BoundListener("disconnect", w.h.bound))])

\* ---- the connector's handlers, connector.ts lines 427-472

\* a slip: the session is persisted without the comparison
onChainChanged_AlwaysPersists(w0, id) ==
  Once([w0 EXCEPT !.he = Append(@, "change")], LAMBDA w :
  IF w.h.session # <<>>
    THEN LET session == <<[w.h.session[1] EXCEPT !.chainId = id]>>
         IN  [w EXCEPT !.h.session = session, !.h.stored = session]
    ELSE w)

\* onChainChanged(chainId): a session with another chain id is changed and
\* persisted, and 'change' is emitted
onChainChanged(w0, id) ==
  Once([w0 EXCEPT !.he = Append(@, "change")], LAMBDA w :
  IF w.h.session # <<>> /\ w.h.session[1].chainId # id
    THEN LET session == <<[w.h.session[1] EXCEPT !.chainId = id]>>
         IN  [w EXCEPT !.h.session = session, !.h.stored = session]
    ELSE w)

\* onDisconnect(): up to the await of sessionManager.remove()
onDisconnect(w0) ==
  Once(w0, LAMBDA w :
  detach([w EXCEPT !.he = Append(@, "disconnect"),
                   !.h.session = <<>>, !.h.aliased = FALSE, !.h.removing = TRUE]))

handle(w0, event) ==
  Once(w0, LAMBDA w :
  IF HandlersOn(w.l, event.name) = {} THEN w
  ELSE IF event.name = "chainChanged" THEN onChainChanged(w, ParseIntHex(event.args))
  ELSE IF event.name = "disconnect" THEN onDisconnect(w)
  ELSE IF event.name = "accountsChanged" /\ event.args = <<>> THEN onDisconnect(w)
  ELSE IF event.name = "accountsChanged" THEN [w EXCEPT !.he = Append(@, "change")]
  ELSE w)

RECURSIVE providerEmit(_, _, _)
\* the provider emits these events, in order, to the listeners then registered
providerEmit(w0, events, i) ==
  Once(w0, LAMBDA w :
  IF i > Len(events) THEN w
  ELSE providerEmit(handle([w EXCEPT !.e = Append(@, events[i])], events[i]), events, i + 1))

\* provider.updateSession(session) called with the SessionManager's object
providerUpdateSession(w0, session) ==
  Once(w0, LAMBDA w :
  providerEmit([w EXCEPT !.s = <<session>>, !.h.aliased = (w.h.session = <<session>>)],
               UpdateSessionEvents(w.s, session), 1))

\* ---- getProvider(), lines 311-338, up to its await

getProvider(w0) ==
  Once(w0, LAMBDA w :
  IF w.h.providers > 0 THEN [w |-> w, status |-> "ready"]
  ELSE IF ~ w.h.cryptoOk THEN [w |-> w, status |-> "throws"]
  ELSE [w |-> [w EXCEPT !.h = [initializeManagers(@) EXCEPT !.providers = @ + 1],
                        !.s = <<>>, !.l = NoListeners, !.b = NoBatches],
        status |-> "pending"])

\* what the backend answers during a restore
HostRestoreEnvs == [verify : {"off"}, refresh : {"ok", "fail"}]

\* SessionManager.restore() settles, lines 57-138: with nothing stored the
\* session in memory is left as it is
restore(w0, env) ==
  Once(w0, LAMBDA w :
  LET restored == Restore(w.h.stored, env, clockNow)
  IN  IF w.h.stored = <<>> THEN w
      ELSE [w EXCEPT !.h.session = restored, !.h.stored = restored, !.h.aliased = FALSE])

\* ---- connector.switchChain, lines 357-425, and the provider's part of it

PlainError(msg) == [name |-> "Error", code |-> "undefined", message |-> msg]
SwitchChainErrorOf(cause) == [name |-> "SwitchChainError", code |-> "4902", message |-> cause]
UserRejectedOf(cause) ==
  [name |-> "UserRejectedRequestError", code |-> "4001", message |-> cause]

ChainNotConfigured == "Chain not configured."

\* request({method: 'wallet_switchEthereumChain'}) on the provider, lines
\* 612-633, within the connector
providerSwitchChain(w0, chainId) ==
  Once(w0, LAMBDA w :
  LET n == ParseIntHex(chainId)
  IN  IF w.s = <<>> THEN [w |-> w, ok |-> FALSE, error |-> PlainError(NoActiveSession)]
      ELSE IF n = NaN THEN [w |-> w, ok |-> FALSE, error |-> PlainError(InvalidChainId)]
      ELSE IF ChainRejected(w.s[1], n)
        THEN [w |-> [w EXCEPT !.win = Append(@, "unsupported-chain")], ok |-> FALSE,
              error |-> PlainError(ChainNotSupported(n))]
      ELSE LET switched == [w EXCEPT !.s = <<[w.s[1] EXCEPT !.chainId = n]>>,
                                    !.h.session = IF w.h.aliased /\ @ # <<>>
                                                    THEN <<[@[1] EXCEPT !.chainId = n]>> ELSE @]
           IN  [w |-> providerEmit(switched, <<Event("chainChanged", HexOf(n))>>, 1),
                ok |-> TRUE, error |-> PlainError("")])

\* request({method: 'wallet_addEthereumChain'}), lines 639-658
providerAddChain(w0, chainId) ==
  Once(w0, LAMBDA w :
  LET n == ParseIntHex(chainId)
  IN  IF w.s = <<>> THEN [w |-> w, ok |-> FALSE, error |-> PlainError(NoActiveSession)]
      ELSE IF n = NaN THEN [w |-> w, ok |-> FALSE, error |-> PlainError(InvalidChainId)]
      ELSE IF ChainRejected(w.s[1], n)
        THEN [w |-> [w EXCEPT !.win = Append(@, "unsupported-chain")], ok |-> FALSE,
              error |-> PlainError(ChainNotSupported(n))]
      ELSE [w |-> w, ok |-> TRUE, error |-> PlainError("")])

connectorSwitchChain(w0, chainId) ==
  Once(w0, LAMBDA w :
  IF w.h.session = <<>> THEN [w |-> w, ok |-> FALSE, error |-> PlainError(NotConnected)]
  ELSE IF chainId \notin ConfiguredChains
    THEN [w |-> w, ok |-> FALSE, error |-> SwitchChainErrorOf(ChainNotConfigured)]
  ELSE Once(providerSwitchChain(w, HexOf(chainId)), LAMBDA r :
         IF r.ok THEN r
         ELSE IF r.error.code = "4902"
           THEN Once(providerAddChain(r.w, HexOf(chainId)), LAMBDA a :
                  IF a.ok THEN a
                  ELSE [a EXCEPT !.error = UserRejectedOf(a.error.message)])
         ELSE [r EXCEPT !.error = SwitchChainErrorOf(r.error.message)]))

\* a slip: every failure of the switch is thrown on
switchFailed_Rethrows(error, currentChainId) == [rethrown |-> TRUE, id |-> 0]

\* the .catch of the switch in connect, lines 95-99 and 166-169
switchFailed(error, currentChainId) ==
  IF error.code = "4001" THEN [rethrown |-> TRUE, id |-> 0]
  ELSE [rethrown |-> FALSE, id |-> currentChainId]

\* ---- connect(), lines 221-267, from the handling of the accounts on

\* the call has resolved with these accounts and this chain id
connected(w, c, accounts, id) ==
  [w |-> w,
   c |-> [CallSettled(c, "resolved", "") EXCEPT
            !.accounts = accounts, !.chain = id,
            !.registered = {ev \in DOMAIN ConnectorHandlers : HandlersOn(w.l, ev) # {}}]]

\* lines 160-171 (and 89-101): the requested chain is not the session's
connectSwitch(w0, c, accounts, current) ==
  Once(connectorSwitchChain(w0, c.chainId), LAMBDA r :
    Once([c EXCEPT !.switchTried = TRUE, !.accountsAtSwitch = accounts,
                   !.sessionAtSwitch = w0.h.session, !.chainBefore = current,
                   !.switchError = IF r.ok THEN <<>> ELSE <<r.error>>], LAMBDA tried :
      IF r.ok THEN connected(r.w, tried, accounts, c.chainId)
      ELSE IF switchFailed(r.error, current).rethrown
        THEN [w |-> r.w, c |-> CallSettled(tried, "rejected", r.error.name)]
      ELSE connected(r.w, tried, accounts, switchFailed(r.error, current).id)))

\* lines 151-181 (and 79-111): attach, getChainId, the switch, the result
connectTail(w0, c, accounts) ==
  Once(IF w0.h.bound = 0 THEN attach(w0) ELSE w0, LAMBDA w :
    IF w.h.session = <<>>
      THEN [w |-> w, c |-> CallSettled(c, "rejected", NotConnected)]
    ELSE IF c.chainId # 0 /\ w.h.session[1].chainId # c.chainId
      THEN connectSwitch(w, c, accounts, w.h.session[1].chainId)
    ELSE connected(w, c, accounts, w.h.session[1].chainId))

\* handleReconnection lines 60-83 / handleNormalConnection lines 117-149
connectFlow(w0, c) ==
  Once(w0, LAMBDA w :
  IF c.reconnecting
    THEN IF w.h.session = <<>>
           THEN [w |-> w, c |-> CallSettled(c, "rejected", NoCachedSession)]
           ELSE connectTail(w, c, <<w.h.session[1].walletAddress>>)
  ELSE IF w.s = <<>>
    THEN [w |-> [w EXCEPT !.win = Append(@, "about:blank")],
          c |-> [c EXCEPT !.pc = "oauth", !.oauthStarted = TRUE,
                          !.windows = Append(@, "about:blank")]]
  ELSE connectTail(w, c, <<w.s[1].walletAddress>>))

\* NyknycProvider.disconnect(), lines 699-703
providerDisconnect(w0) ==
  providerEmit([w0 EXCEPT !.s = <<>>, !.b = NoBatches], <<Event("disconnect", <<>>)>>, 1)

\* NyknycProvider.close(), lines 708-712
providerClose(w0) == [w0 EXCEPT !.l = NoListeners, !.s = <<>>, !.b = NoBatches]

\* a slip: the provider is disconnected while the handlers are still attached
disconnectSync_DetachLast(w0, c) ==
  Once(w0, LAMBDA w :
  [w |-> providerClose(detach(providerDisconnect(
                [w EXCEPT !.h.session = <<>>, !.h.aliased = FALSE]))),
   c |-> [c EXCEPT !.pc = "remove"]])

\* disconnect(), lines 269-291, from the provider on up to the await of
\* sessionManager.remove()
disconnectSync(w0, c) ==
  Once(w0, LAMBDA w :
  [w |-> providerClose(providerDisconnect(detach(
                [w EXCEPT !.h.session = <<>>, !.h.aliased = FALSE]))),
   c |-> [c EXCEPT !.pc = "remove"]])

\* the call of getProvider() that follows setup in connect (line 241) or
\* opens disconnect (line 271)
mainGetProvider(w0, c) ==
  Once(w0, LAMBDA w :
  LET c1 == [c EXCEPT !.phase = "main"]
      g == getProvider(w)
  IN  IF g.status = "throws" THEN [w |-> w, c |-> CallSettled(c1, "rejected", CryptoUnavailable)]
      ELSE IF g.status = "pending" THEN [w |-> g.w, c |-> [c1 EXCEPT !.pc = "gpRestore"]]
      ELSE IF c.op = "disconnect" THEN disconnectSync(w, c1)
      ELSE connectFlow(w, c1))

\* setup() has returned, lines 213-218: completed, or failed and caught
setupDone(w0, c, complete) ==
  Once(w0, LAMBDA w :
  LET w1 == [w EXCEPT !.h.setupComplete = @ \/ complete]
  IN  IF c.op = "setup" THEN [w |-> w1, c |-> CallSettled(c, "resolved", "")]
      ELSE mainGetProvider(w1, c))

\* setup() lines 201-211: restore once more when no session is held
setupSessionCheck(w0, c) ==
  Once(w0, LAMBDA w :
  IF w.h.session # <<>> THEN setupDone(w, c, TRUE)
  ELSE [w |-> w, c |-> [c EXCEPT !.pc = "setupRestore"]])

\* setup() lines 194-199
setupBody(w0, c) ==
  Once(w0, LAMBDA w :
  LET c1 == [c EXCEPT !.phase = "setup"]
      w1 == [w EXCEPT !.h = initializeManagers(@)]
      g == getProvider(w1)
  IN  IF g.status = "throws" THEN setupDone(w1, c1, FALSE)
      ELSE IF g.status = "pending" THEN [w |-> g.w, c |-> [c1 EXCEPT !.pc = "gpRestore"]]
      ELSE setupSessionCheck(w1, c1))

\* getProvider() has returned the provider to its caller
afterGetProvider(w0, c) ==
  Once(w0, LAMBDA w :
  IF c.op = "getProvider"
    THEN [w |-> w, c |-> [CallSettled(c, "resolved", "") EXCEPT !.provider = w.h.providers]]
  ELSE IF c.phase = "setup" THEN setupSessionCheck(w, c)
  ELSE IF c.op = "disconnect" THEN disconnectSync(w, c)
  ELSE connectFlow(w, c))

\* ---- the steps

HostFrame ==
  UNCHANGED <<fetchVars, statusVars, validityVars, connVars, req, lRemoved, storageVars, refreshVars, pollVars, receiptVars, pkceVars>>

\* is a valid session cached: held by the SessionManager, or restorable
CachedValid ==
  \/ SessionManagerIsValid(host.session, clockNow)
  \/ isSessionValid(host.stored, DefaultBufferMinutes, clockNow)

Started(op) ==
  [NoCall EXCEPT !.op = op, !.pc = "running",
                 !.cachedAtStart = CachedValid,
                 !.providerAtStart = IF host.providers = 0 THEN "none"
                                     ELSE IF pSession = <<>> THEN "empty" ELSE "session",
                 !.alone = \A j \in CallIds : ~ InFlight(calls[j]),
                 !.batchesAtStart = Cardinality(DOMAIN pBatches),
                 !.attachedAtStart = (host.bound # 0)]

\* a call begins in the first free slot, and the records of settled calls
\* are dropped when the next call begins
Free(i) == ~ InFlight(calls[i]) /\ \A j \in CallIds : j < i => InFlight(calls[j])

\* the step of call i ends in r; a call that begins overlaps the calls in flight
Step(i, result, begins) ==
  \E r \in {result} :
  /\ HostFrame
  /\ host' = r.w.h
  /\ pSession' = r.w.s
  /\ pListeners' = r.w.l
  /\ pBatches' = r.w.b
  /\ pEmitted' = r.w.e
  /\ pWindows' = r.w.win
  /\ calls' = [j \in CallIds |->
                 IF j = i THEN [r.c EXCEPT !.hostEvents = @ \o r.w.he]
                 ELSE IF begins /\ InFlight(calls[j]) THEN [calls[j] EXCEPT !.alone = FALSE]
                 ELSE IF begins THEN NoCall
                 ELSE calls[j]]

CallSetup(i) ==
  /\ Free(i)
  /\ Step(i, IF host.setupComplete
               THEN [w |-> World, c |-> CallSettled(Started("setup"), "resolved", "")]
               ELSE setupBody(World, Started("setup")), TRUE)

CallGetProvider(i) ==
  /\ Free(i)
  /\ LET c == Started("getProvider")
         g == getProvider(World)
     IN  Step(i, IF g.status = "throws"
                   THEN [w |-> World, c |-> CallSettled(c, "rejected", CryptoUnavailable)]
                 ELSE IF g.status = "pending"
                   THEN [w |-> g.w, c |-> [c EXCEPT !.pc = "gpRestore"]]
                 ELSE afterGetProvider(World, c), TRUE)

CallConnect(i, chainId, isReconnecting) ==
  /\ Free(i)
  /\ LET c == [Started("connect") EXCEPT !.chainId = chainId, !.reconnecting = isReconnecting]
     IN  Step(i, IF host.setupComplete THEN mainGetProvider(World, c)
                 ELSE setupBody(World, c), TRUE)

\* isAuthorized(), lines 340-355
CallIsAuthorized(i) ==
  /\ Free(i)
  /\ LET c == Started("isAuthorized")
         w == [World EXCEPT !.h = initializeManagers(@)]
     IN  Step(i, IF w.h.session # <<>>
                   THEN [w |-> w, c |-> [CallSettled(c, "resolved", "") EXCEPT
                                           !.authorized = SessionManagerIsValid(w.h.session, clockNow)]]
                   ELSE [w |-> w, c |-> [c EXCEPT !.pc = "authRestore"]], TRUE)

CallDisconnect(i) ==
  /\ Free(i)
  /\ Step(i, mainGetProvider(World, Started("disconnect")), TRUE)

\* the restore awaited by call i settles
RestoreSettles(i, env) ==
  /\ calls[i].pc \in {"gpRestore", "setupRestore", "authRestore"}
  /\ LET c == calls[i]
         w == restore(World, env)
         restored == IF host.stored = <<>> THEN <<>> ELSE w.h.session
     IN  Step(i, IF c.pc = "gpRestore"
                   THEN afterGetProvider(IF restored # <<>>
                                           THEN providerUpdateSession(w, restored[1]) ELSE w,
                                         [c EXCEPT !.pc = "running"])
                 ELSE IF c.pc = "setupRestore"
                   THEN setupDone(w, [c EXCEPT !.pc = "running"], TRUE)
                 ELSE [w |-> w, c |-> [CallSettled(c, "resolved", "") EXCEPT
                                         !.authorized = SessionManagerIsValid(w.h.session, clockNow)]],
                 FALSE)

HostAuthSessions == {Session("0xWalletB", 10, TRUE, {1, 10}, "tokA")}

\* a slip: the new session is not handed to the provider
OAuthResolves_NoUpdate(i, session) ==
  /\ calls[i].pc = "oauth"
  /\ LET w == [World EXCEPT !.h.session = <<session>>, !.h.stored = <<session>>,
                            !.h.aliased = FALSE]
     IN  Step(i, connectTail(w, [calls[i] EXCEPT !.pc = "running"],
                             <<session.walletAddress>>), FALSE)

\* authFlowManager.initiate resolves, lines 135-149: the session is set and
\* persisted, handed to the provider, and 'connect' is emitted
OAuthResolves(i, session) ==
  /\ calls[i].pc = "oauth"
  /\ LET w == [World EXCEPT !.h.session = <<session>>, !.h.stored = <<session>>,
                            !.h.aliased = FALSE]
     IN  Step(i, connectTail(providerUpdateSession(w, session),
                             [calls[i] EXCEPT !.pc = "running"],
                             <<session.walletAddress>>), FALSE)

\* authFlowManager.initiate rejects: before a session was set, or when
\* persisting it failed
OAuthRejects(i, persisting, session) ==
  /\ calls[i].pc = "oauth"
  /\ Step(i, [w |-> IF persisting
                      THEN [World EXCEPT !.h.session = <<session>>, !.h.aliased = FALSE]
                      ELSE World,
              c |-> CallSettled(calls[i], "rejected",
                            IF persisting THEN PersistFailed ELSE AuthenticationFailed)], FALSE)

\* a slip: the record stays in storage
RemoveSettles_KeepsRecord(i) ==
  /\ calls[i].pc = "remove"
  /\ Step(i, [w |-> [World EXCEPT !.h.session = <<>>, !.h.aliased = FALSE,
                                  !.he = <<"disconnect">>],
              c |-> CallSettled(calls[i], "resolved", "")], FALSE)

\* sessionManager.remove() awaited by disconnect() settles and 'disconnect'
\* is emitted, lines 286-290
RemoveSettles(i) ==
  /\ calls[i].pc = "remove"
  /\ Step(i, [w |-> [World EXCEPT !.h.session = <<>>, !.h.stored = <<>>, !.h.aliased = FALSE,
                                  !.he = <<"disconnect">>],
              c |-> CallSettled(calls[i], "resolved", "")], FALSE)

\* sessionManager.remove() awaited by onDisconnect settles, line 471
HandlerRemoveSettles ==
  /\ host.removing
  /\ HostFrame
  /\ host' = [host EXCEPT !.session = <<>>, !.stored = <<>>, !.aliased = FALSE,
                          !.removing = FALSE]
  /\ pEmitted' = <<>>
  /\ pWindows' = <<>>
  /\ UNCHANGED <<pSession, pListeners, pBatches, calls>>

\* the host calls disconnect() on the provider it was given, lines 699-703
HostProviderDisconnect ==
  /\ host.providers > 0
  /\ HostFrame
  /\ \E w \in {providerDisconnect(World)} :
         /\ host' = w.h
         /\ pSession' = w.s
         /\ pListeners' = w.l
         /\ pBatches' = w.b
         /\ pEmitted' = w.e
         /\ pWindows' = w.win
  /\ UNCHANGED calls

HostTxIds == <<"tx1", "tx2">>

\* a wallet_sendCalls of the host on the provider resolves, lines 493-501:
\* a fresh batch id is mapped to the created ids
HostSendCalls(id) ==
  /\ host.providers > 0
  /\ pSession # <<>>
  /\ id \in BatchIds \ DOMAIN pBatches
  /\ HostFrame
  /\ pBatches' = [b \in DOMAIN pBatches \cup {id} |->
                    IF b = id THEN HostTxIds ELSE pBatches[b]]
  /\ pEmitted' = <<>>
  /\ pWindows' = <<"review:tx1">>
  /\ UNCHANGED <<host, pSession, pListeners, calls>>

\* overlapping calls of the methods that initialize the connector
OverlapNext ==
  \/ \E i \in CallIds : CallSetup(i)
  \/ \E i \in CallIds : CallGetProvider(i)
  \/ \E i \in CallIds, r \in BOOLEAN : CallConnect(i, 0, r)
  \/ \E i \in CallIds : CallIsAuthorized(i)
  \/ \E i \in CallIds, env \in HostRestoreEnvs : RestoreSettles(i, env)
  \/ \E i \in CallIds, s \in HostAuthSessions : OAuthResolves(i, s)
  \/ \E i \in CallIds, p \in BOOLEAN, s \in HostAuthSessions : OAuthRejects(i, p, s)

\* connect and disconnect one after the other, and the provider disconnected
\* by the host at any moment
LifecycleNext ==
  \/ \E ch \in ConnectChains : CallConnect(1, ch, FALSE)
  \/ \E ch \in ReconnectChains : CallConnect(1, ch, TRUE)
  \/ CallDisconnect(1)
  \/ \E env \in HostRestoreEnvs : RestoreSettles(1, env)
  \/ \E s \in HostAuthSessions : OAuthResolves(1, s)
  \/ \E p \in BOOLEAN, s \in HostAuthSessions : OAuthRejects(1, p, s)
  \/ RemoveSettles(1)
  \/ HandlerRemoveSettles
  \/ HostProviderDisconnect
  \/ \E id \in BatchIds : HostSendCalls(id)

---------------------------------------------------------------------------
(* The value of a create-transaction request: provider.ts lines 212-218     *)
(* (eth_sendTransaction) and 458-474 (each call of wallet_sendCalls)        *)

DecimalDigitChars == <<"0","1","2","3","4","5","6","7","8","9">>

IsDecimalDigit(c) == \E i \in DOMAIN DecimalDigitChars : DecimalDigitChars[i] = c

RECURSIVE ToString10(_)
\* n.toString() of a BigInt that is not negative
ToString10(n) ==
  IF n < 10 THEN <<DecimalDigitChars[n + 1]>>
  ELSE ToString10(n \div 10) \o <<DecimalDigitChars[(n % 10) + 1]>>

RECURSIVE DecimalValue(_, _)
\* the number a string of decimal digits denotes, read up to position i
DecimalValue(chars, i) ==
  IF i = 0 THEN 0
  ELSE DecimalValue(chars, i - 1) * 10
         + (CHOOSE k \in DOMAIN DecimalDigitChars : DecimalDigitChars[k] = chars[i]) - 1

IsDecimalString(chars) == Len(chars) > 0 /\ \A i \in DOMAIN chars : IsDecimalDigit(chars[i])

\* a hex quantity: 0x followed by at least one hex digit
IsHexQuantity(chars) ==
  /\ Len(chars) >= 3
  /\ chars[1] = "0" /\ LowerChar(chars[2]) = "x"
  /\ \A i \in 3 .. Len(chars) : HexVal(chars[i]) # -1

\* BigInt(string): the empty string is 0, a 0x-prefixed string is read as
\* hexadecimal and a string of digits as decimal; anything else is a
\* SyntaxError (<<>>)
BigIntOf(chars) ==
  IF chars = <<>> THEN <<0>>
  ELSE IF IsHexQuantity(chars) THEN <<ParseIntHex(chars)>>
  ELSE IF IsDecimalString(chars) THEN <<DecimalValue(chars, Len(chars))>>
  ELSE <<>>

\* a slip: the hex value is passed on as it came
sendCallsValue_PassThrough(value) == IF value = <<>> THEN <<"0">> ELSE value[1]

\* lines 460-466: call.value ?? '0x0', BigInt(valueHex).toString(), and '0'
\* when BigInt throws; value is <<>> when the call has none
sendCallsValue(value) ==
  LET valueHex == IF value = <<>> THEN <<"0", "x", "0">> ELSE value[1]
  IN  IF BigIntOf(valueHex) = <<>> THEN <<"0">> ELSE ToString10(BigIntOf(valueHex)[1])

\* line 215: transaction.value || '0'
sendTransactionValue(value) ==
  IF value = <<>> \/ value[1] = <<>> THEN <<"0">> ELSE value[1]

MaxValueLen == 3
ValueChars == {"0", "1", "x", "a", "g"}

\* the value fields a dApp passes: none, or a string
ValueInputs ==
  {<<>>} \cup {<<chars>> : chars \in UNION {[1 .. n -> ValueChars] : n \in 0 .. MaxValueLen}}

\* eth_sendTransaction builds its request, lines 202-218
BuildSendTransaction(value) ==
  /\ ProviderFrame
  /\ CanStart
  /\ pSession # <<>>
  /\ req' = [StartReq("eth_sendTransaction") EXCEPT
               !.valueArg = value, !.txValue = sendTransactionValue(value), !.pc = "built"]
  /\ pEmitted' = <<>>
  /\ pWindows' = <<"about:blank">>
  /\ UNCHANGED <<pSession, pBatches>>

\* wallet_sendCalls builds the request of one call, lines 458-474
BuildSendCalls(value) ==
  /\ ProviderFrame
  /\ CanStart
  /\ pSession # <<>>
  /\ req' = [StartReq("wallet_sendCalls") EXCEPT
               !.valueArg = value, !.txValue = sendCallsValue(value), !.pc = "built"]
  /\ pEmitted' = <<>>
  /\ pWindows' = <<>>
  /\ UNCHANGED <<pSession, pBatches>>

\* the request is handed to createTransaction and the operation goes on
ValueSent ==
  /\ ProviderFrame
  /\ req.pc = "built"
  /\ req' = [req EXCEPT !.pc = "done", !.backend = @ + 1]
  /\ UNCHANGED <<pSession, pEmitted, pWindows, pBatches>>

ValueNext ==
  \/ \E s \in SignSessions : UpdateSession(s)
  \/ \E v \in ValueInputs : BuildSendTransaction(v)
  \/ \E v \in ValueInputs : BuildSendCalls(v)
  \/ ValueSent

---------------------------------------------------------------------------
(* The polling primitives: waitForSignCompletion (part_001 lines 232-252),  *)
(* waitForTransactionHash (437-461), waitForTransactionCompletion (466-491) *)

CompletionTimeout == "Transaction timeout - status polling exceeded maximum attempts"

\* a slip: the loop runs while attempt <= maxAttempts
PollMore_Inclusive(attempt, maxAttempts) == attempt <= maxAttempts

\* the loop condition, attempt < maxAttempts
PollMore(attempt, maxAttempts) == attempt < maxAttempts

\* one iteration of waitForTransactionCompletion, lines 478-484
CompletionWaitStep(status) ==
  IF status.status = Str(W_completed) THEN "return"
  ELSE IF status.status = Str(W_failed) THEN "throw"
  ELSE "sleep"

\* one iteration of waitForSignCompletion, lines 243-248
SignWaitStep(status) ==
  IF status.status = "signed" THEN "return"
  ELSE IF status.status \in {"rejected", "expired", "failed"} THEN "throw"
  ELSE "sleep"

WaitKinds == {"hash", "completion", "sign"}

\* what the status request of each primitive resolves with
WaitStatuses(kind) ==
  IF kind = "sign" THEN SignPayloads
  ELSE {normalizeTransactionStatus(p) : p \in TxPayloads}

WaitStep(kind, status) ==
  CASE kind = "hash" -> HashWaitStep(status)
    [] kind = "completion" -> CompletionWaitStep(status)
    [] OTHER -> SignWaitStep(status)

\* the error thrown for a failure the backend reports
WaitFailure(kind, status) ==
  IF status.error # "" THEN status.error
  ELSE IF kind = "sign" THEN "Signing " \o status.status
  ELSE TransactionFailed

\* the error thrown when the loop runs out
WaitTimeout(kind) ==
  CASE kind = "hash" -> HashTimeout
    [] kind = "completion" -> CompletionTimeout
    [] OTHER -> SigningTimeout

\* the results each primitive waits for
WaitTerminal(kind, status) ==
  CASE kind = "hash" -> HasHash(status) \/ status.status = Str(W_failed)
    [] kind = "completion" -> status.status \in {Str(W_completed), Str(W_failed)}
    [] OTHER -> status.status \in {"signed", "rejected", "expired", "failed"}

\* a slip: each iteration reads the session's token
FirstToken_Current(accessToken, sessionToken) == sessionToken

\* the token an iteration hands to the status getter (part_001 lines 242,
\* 447, 476): the accessToken parameter of the primitive; sessionToken is
\* what the session holds by then
FirstToken(accessToken, sessionToken) == accessToken

MaxPollAttempts == 3

NoWait ==
  [kind |-> "none", maxAttempts |-> 0, cb |-> FALSE, pc |-> "idle", attempt |-> 0,
   polls |-> 0, requests |-> 0, inFlight |-> 0, terminalAt |-> 0,
   outcome |-> "none", error |-> "", cause |-> "none",
   accessToken |-> 0, sessionToken |-> 0, sent |-> <<>>, refreshes |-> 0]

PollIdle == pl = NoWait

PollFrame ==
  UNCHANGED <<fetchVars, statusVars, validityVars, providerVars, listenerVars, connVars,
              hostVars, storageVars, refreshVars, receiptVars, pkceVars>>

WaitEnds(w, outcome, err, cause) ==
  [w EXCEPT !.pc = "done", !.outcome = outcome, !.error = err, !.cause = cause]

\* a caller invokes one of the primitives
WaitBegin(kind, maxAttempts, cb) ==
  /\ PollFrame
  /\ pl.pc \in {"idle", "done"}
  /\ pl' = [NoWait EXCEPT !.kind = kind, !.maxAttempts = maxAttempts, !.cb = cb,
                          !.pc = "loop"]

\* the loop goes round and the status request is sent
PollRequest ==
  /\ PollFrame
  /\ pl.pc = "loop"
  /\ PollMore(pl.attempt, pl.maxAttempts)
  /\ pl' = [pl EXCEPT !.pc = "first", !.polls = @ + 1, !.requests = @ + 1,
                      !.inFlight = @ + 1,
                      !.sent = <<FirstToken(pl.accessToken, pl.sessionToken)>>]

\* the status request resolves with a status and the iteration acts on it
PollAnswers(status) ==
  /\ PollFrame
  /\ pl.pc \in {"first", "retry"}
  /\ status \in WaitStatuses(pl.kind)
  /\ LET got == [pl EXCEPT !.inFlight = @ - 1,
                           !.terminalAt = IF WaitTerminal(pl.kind, status) THEN pl.polls ELSE @]
     IN  pl' = CASE WaitStep(pl.kind, status) = "return" -> WaitEnds(got, "returned", "", "none")
                 [] WaitStep(pl.kind, status) = "throw" ->
                      WaitEnds(got, "threw", WaitFailure(pl.kind, status), "remote")
                 [] OTHER -> [got EXCEPT !.pc = "sleep"]

\* the first request of an iteration answers 401 and onUnauthorized is called
PollUnauthorized ==
  /\ PollFrame
  /\ pl.pc = "first"
  /\ pl.cb
  /\ pl' = [pl EXCEPT !.inFlight = @ - 1, !.pc = "refresh"]

\* onUnauthorized settles: the session holds a new token (tokens are numbered
\* as they are issued, the one the primitive was called with being 0) and the
\* request is sent again with it, or the refresh error leaves the primitive
PollRefreshed(ok) ==
  /\ PollFrame
  /\ pl.pc = "refresh"
  /\ pl' = IF ok THEN [pl EXCEPT !.pc = "retry", !.requests = @ + 1, !.inFlight = @ + 1,
                                 !.refreshes = @ + 1, !.sessionToken = @ + 1,
                                 !.sent = Append(@, pl.sessionToken + 1)]
           ELSE WaitEnds([pl EXCEPT !.refreshes = @ + 1], "threw", RefreshFailed, "request")

\* the status request throws: an HTTP error or a network error
PollRequestFails(err) ==
  /\ PollFrame
  /\ pl.pc \in {"first", "retry"}
  /\ pl' = WaitEnds([pl EXCEPT !.inFlight = @ - 1], "threw", err, "request")

\* the interval has passed
PollWake ==
  /\ PollFrame
  /\ pl.pc = "sleep"
  /\ pl' = [pl EXCEPT !.pc = "loop", !.attempt = @ + 1]

\* the loop has run out
PollExhausted ==
  /\ PollFrame
  /\ pl.pc = "loop"
  /\ ~ PollMore(pl.attempt, pl.maxAttempts)
  /\ pl' = WaitEnds(pl, "threw", WaitTimeout(pl.kind), "exhausted")

PollNext ==
  \/ \E kind \in WaitKinds, n \in 0 .. MaxPollAttempts, cb \in BOOLEAN : WaitBegin(kind, n, cb)
  \/ PollRequest
  \/ \E status \in WaitStatuses("sign") \cup WaitStatuses("hash") : PollAnswers(status)
  \/ PollUnauthorized
  \/ \E ok \in BOOLEAN : PollRefreshed(ok)
  \/ \E e \in BackendErrors : PollRequestFails(e)
  \/ PollWake
  \/ PollExhausted

---------------------------------------------------------------------------
(* wallet_getCallsReceipt as a function of the raw status payloads of the   *)
(* members: getTransactionStatus normalizes each (api.ts line 175) and      *)
(* provider.ts lines 559-605 build the answer                               *)

ReceiptMembers == <<"tx1", "tx2">>

\* the payloads the status endpoint answers with for the first n members
MemberPayloads(n) ==
  {ps \in [1 .. n -> AllBatchPayloads] : \A i \in 1 .. n : ps[i] \in BatchPayloads(ReceiptMembers[i])}

NoAnswer == [status |-> "", hasReceipts |-> FALSE, receipts |-> <<>>]

ReceiptIdle == rc = [payloads |-> <<>>, answered |-> FALSE, receipt |-> NoAnswer]

ReceiptDraw ==
  rc \in [payloads : MemberPayloads(1) \cup MemberPayloads(2), answered : {FALSE},
          receipt : {NoAnswer}]

ReceiptFrame ==
  UNCHANGED <<fetchVars, statusVars, validityVars, providerVars, listenerVars, connVars,
              hostVars, storageVars, refreshVars, pollVars, pkceVars>>

\* the statuses are gathered and the answer is built
ReceiptBuilt ==
  /\ ReceiptFrame
  /\ ~ rc.answered
  /\ rc' = [rc EXCEPT !.answered = TRUE,
                      !.receipt = CallsReceipt([i \in DOMAIN rc.payloads |->
                                                  normalizeTransactionStatus(rc.payloads[i])])]

ReceiptNext == ReceiptBuilt

---------------------------------------------------------------------------
(* NyknycStorage, utils/storage.ts                                          *)
(*                                                                          *)
(* A backend holds null (<<>>) or one string (<<text>>) under the session   *)
(* key. A string is described by what JSON.parse makes of it.               *)

NoFields == [f \in {} |-> 0]

\* JSON values: a string, a number, null, an array of numbers, an object
JVal(type, str, num, list, fields) ==
  [type |-> type, str |-> str, num |-> num, list |-> list, fields |-> fields]
JStr(x) == JVal("string", x, 0, {}, NoFields)
JNum(n) == JVal("number", "", n, {}, NoFields)
JNull == JVal("null", "", 0, {}, NoFields)
JList(l) == JVal("array", "", 0, l, NoFields)
JObject(fields) == JVal("object", "", 0, {}, fields)

\* strings: the empty one, one that is no JSON text, and JSON texts
EmptyText == [kind |-> "empty", value |-> JNull]
Garbage == [kind |-> "garbage", value |-> JNull]
JsonText(v) == [kind |-> "json", value |-> v]

\* JSON.stringify(session), line 60: a NaN is written as null and an absent
\* supportedChains is left out
stringify(session) ==
  LET required ==
        [accessToken |-> JStr(session.accessToken),
         refreshToken |-> JStr(session.refreshToken),
         expiresAt |-> IF session.expiresAt = NaN THEN JNull ELSE JNum(session.expiresAt),
         walletAddress |-> JStr(session.walletAddress),
         chainId |-> JNum(session.chainId)]
  IN  JsonText(JObject(IF session.hasSupportedChains
                         THEN required @@ ("supportedChains" :> JList(session.supportedChains))
                         ELSE required))

\* the session object a valid parsed record is
AsSession(v) ==
  [walletAddress |-> v.fields.walletAddress.str, chainId |-> v.fields.chainId.num,
   hasSupportedChains |-> "supportedChains" \in DOMAIN v.fields,
   supportedChains |-> IF "supportedChains" \in DOMAIN v.fields
                         THEN v.fields.supportedChains.list ELSE {},
   accessToken |-> v.fields.accessToken.str, refreshToken |-> v.fields.refreshToken.str,
   expiresAt |-> v.fields.expiresAt.num]

HasTyped(v, field, type) == field \in DOMAIN v.fields /\ v.fields[field].type = type

\* isValidSession, lines 180-190
isValidSession(v) ==
  /\ v.type = "object"
  /\ HasTyped(v, "accessToken", "string")
  /\ HasTyped(v, "refreshToken", "string")
  /\ HasTyped(v, "expiresAt", "number")
  /\ HasTyped(v, "walletAddress", "string")
  /\ HasTyped(v, "chainId", "number")

\* how the backends behave during one call: the wagmi storage throws, and
\* localStorage throws (on a write: the quota)
StorageEnvs == [wagmiThrows : BOOLEAN, localThrows : BOOLEAN]

\* a slip: the fallback is written only when the wagmi storage failed
setItem_FallbackOnDemand(st, text, env) ==
  LET wagmiSuccess == st.hasWagmi /\ ~ env.wagmiThrows
      localWritten == ~ wagmiSuccess /\ st.browser /\ ~ env.localThrows
  IN  [st |-> [st EXCEPT !.wagmi = IF wagmiSuccess THEN <<text>> ELSE @,
                         !.local = IF localWritten THEN <<text>> ELSE @],
       throws |-> ~ wagmiSuccess /\ st.browser /\ env.localThrows]

\* setItem, lines 128-152, with LocalStorageBackend.setItem, lines 228-241:
\* outside a browser the fallback returns without writing
setItem(st, text, env) ==
  LET wagmiSuccess == st.hasWagmi /\ ~ env.wagmiThrows
      localThrows == st.browser /\ env.localThrows
      localWritten == st.browser /\ ~ env.localThrows
  IN  [st |-> [st EXCEPT !.wagmi = IF wagmiSuccess THEN <<text>> ELSE @,
                         !.local = IF localWritten THEN <<text>> ELSE @],
       throws |-> localThrows /\ ~ wagmiSuccess]

\* a slip: the fallback is read first
getItem_FallbackFirst(st, env) ==
  IF st.browser /\ ~ env.localThrows /\ st.local # <<>> THEN st.local
  ELSE IF st.hasWagmi /\ ~ env.wagmiThrows THEN st.wagmi
  ELSE <<>>

\* getItem, lines 102-122, with LocalStorageBackend.getItem, lines 214-226
getItem(st, env) ==
  IF st.hasWagmi /\ ~ env.wagmiThrows /\ st.wagmi # <<>> THEN st.wagmi
  ELSE IF st.browser /\ ~ env.localThrows THEN st.local
  ELSE <<>>

\* a slip: the fallback keeps its item
removeItem_PrimaryOnly(st, env) ==
  [st EXCEPT !.wagmi = IF st.hasWagmi /\ ~ env.wagmiThrows THEN <<>> ELSE @]

\* removeItem, lines 158-174, with LocalStorageBackend.removeItem, 243-254
removeItem(st, env) ==
  [st EXCEPT !.wagmi = IF st.hasWagmi /\ ~ env.wagmiThrows THEN <<>> ELSE @,
             !.local = IF st.browser /\ ~ env.localThrows THEN <<>> ELSE @]

StorageInit(hasWagmi, browser) ==
  [hasWagmi |-> hasWagmi, browser |-> browser, wagmi |-> <<>>, local |-> <<>>,
   op |-> "none", env |-> [wagmiThrows |-> FALSE, localThrows |-> FALSE],
   arg |-> <<>>, itemThrew |-> FALSE, outcome |-> "pending", returned |-> <<>>,
   found |-> <<>>, removed |-> FALSE, renv |-> [wagmiThrows |-> FALSE, localThrows |-> FALSE],
   before |-> <<>>,
   prior |-> [op |-> "none", invalid |-> FALSE, clean |-> TRUE, arg |-> <<>>,
              env |-> [wagmiThrows |-> FALSE, localThrows |-> FALSE]]]

StorageIdle == stg = StorageInit(FALSE, FALSE)

StorageDraw == stg \in {StorageInit(w, b) : w, b \in BOOLEAN}

StorageFrame ==
  UNCHANGED <<fetchVars, statusVars, validityVars, providerVars, listenerVars, connVars,
              hostVars, refreshVars, pollVars, receiptVars, pkceVars>>

\* the backends' items before the call
Kept(st) == [wagmi |-> st.wagmi, local |-> st.local]

\* the item read is a string that is not empty and not a valid session
Invalid(item) ==
  /\ item # <<>>
  /\ item[1].kind # "empty"
  /\ item[1].kind = "json" => ~ isValidSession(item[1].value)

NoThrow(env) == ~ env.wagmiThrows /\ ~ env.localThrows

StorageCall(st, op, env, arg) ==
  [st EXCEPT !.op = op, !.env = env, !.arg = arg, !.itemThrew = FALSE,
             !.outcome = "resolved", !.returned = <<>>, !.found = <<>>,
             !.removed = FALSE, !.renv = [wagmiThrows |-> FALSE, localThrows |-> FALSE],
             !.before = <<Kept(stg)>>,
             !.prior = [op |-> stg.op, invalid |-> Invalid(stg.found),
                        clean |-> NoThrow(stg.env) /\ NoThrow(stg.renv),
                        arg |-> stg.arg, env |-> stg.env]]

\* setSession(session), lines 58-66: what setItem throws is caught
SetSession(session, env) ==
  /\ StorageFrame
  /\ \E r \in {setItem(stg, stringify(session), env)} :
       stg' = [StorageCall(r.st, "setSession", env, <<session>>) EXCEPT
                 !.itemThrew = r.throws]

\* removeSession(), lines 71-78
RemoveSession(env) ==
  /\ StorageFrame
  /\ stg' = [StorageCall(removeItem(stg, env), "removeSession", env, <<>>) EXCEPT
               !.removed = TRUE]

\* getSession(), lines 31-52; the removal of an invalid record meets the
\* backends as renv describes them
GetSession(env, renv) ==
  /\ StorageFrame
  /\ \E item \in {getItem(stg, env)} :
       LET call == [StorageCall(stg, "getSession", env, <<>>) EXCEPT !.found = item]
       IN  stg' = IF item = <<>> \/ item[1].kind = "empty" THEN call
                  ELSE IF item[1].kind # "json" THEN call
                  ELSE IF ~ isValidSession(item[1].value)
                    THEN [StorageCall(removeItem(stg, renv), "getSession", env, <<>>) EXCEPT
                            !.found = item, !.removed = TRUE, !.renv = renv]
                  ELSE [call EXCEPT !.returned = <<AsSession(item[1].value)>>]

\* something else writes the item of a backend: another tab, the user, an
\* older version of the connector
ForeignTexts ==
  {EmptyText, Garbage, JsonText(JNull), JsonText(JNum(5)),
   JsonText(JObject([accessToken |-> JStr("tok0"), expiresAt |-> JNum(0),
                     walletAddress |-> JStr("0xWalletA"), chainId |-> JNum(1)])),
   JsonText(JObject([accessToken |-> JStr("tok0"), refreshToken |-> JStr("refresh0"),
                     expiresAt |-> JNum(0), walletAddress |-> JStr("0xWalletA"),
                     chainId |-> JStr("1")]))}

ForeignWrite(backend, text) ==
  /\ StorageFrame
  /\ backend = "wagmi" => stg.hasWagmi
  /\ backend = "local" => stg.browser
  /\ stg' = [StorageCall(stg, "foreign", stg.env, <<>>) EXCEPT ![backend] = <<text>>]

\* the sessions saved: one as the OAuth flow makes it, one whose expiry was
\* computed from a response without expires_in
StorageSessions ==
  {Session("0xWalletA", 1, TRUE, {1, 10}, "tok0"),
   [Session("0xWalletB", 10, FALSE, {}, "tok1") EXCEPT !.expiresAt = NaN]}

StorageNext ==
  \/ \E s \in StorageSessions, env \in StorageEnvs : SetSession(s, env)
  \/ \E env \in StorageEnvs : RemoveSession(env)
  \/ \E env, renv \in StorageEnvs : GetSession(env, renv)
  \/ \E b \in {"wagmi", "local"}, t \in ForeignTexts : ForeignWrite(b, t)

\* a session is saved, saved again after a refresh, loaded and removed
RoundTripSessions ==
  StorageSessions \cup {Session("0xWalletA", 1, TRUE, {1, 10}, "tok1")}

RoundTripNext ==
  \/ \E s \in RoundTripSessions, env \in StorageEnvs : SetSession(s, env)
  \/ \E env \in StorageEnvs : RemoveSession(env)
  \/ \E env, renv \in StorageEnvs : GetSession(env, renv)

---------------------------------------------------------------------------
(* Token refresh: refreshAndPersist of the provider (provider.ts lines      *)
(* 173-189) under withAuthFetch (utils/api.ts lines 16-31), and the refresh *)
(* of SessionManager.restore (SessionManager.ts lines 57-138); every await  *)
(* of a backend answer is a step, so that calls overlap                     *)

MaxBackendCalls == 2
BackendIds == 1 .. MaxBackendCalls

NoBackendCall ==
  [kind |-> "none", pc |-> "idle", sent |-> <<>>, refreshes |-> 0, refreshSent |-> "",
   subject |-> <<>>, refreshed |-> <<>>, before |-> <<>>, after |-> <<>>,
   persisted |-> FALSE, returned |-> "", outcome |-> "pending", error |-> "",
   refreshFailed |-> FALSE]

BackendIdle == bk = [i \in BackendIds |-> NoBackendCall]

RefreshDraw ==
  /\ host \in {HostInit(TRUE, st) : st \in StoredSamples}
  /\ calls = [i \in CallIds |-> NoCall]

RefreshFrame ==
  UNCHANGED <<fetchVars, statusVars, validityVars, connVars, req, pBatches, pWindows,
              listenerVars, calls, storageVars, pollVars, receiptVars, pkceVars>>

BackendInFlight(c) == c.pc \notin {"idle", "done"}

\* the calls that refresh or reach the backend are numbered as they begin
BackendFree(i) ==
  bk[i].pc = "idle" /\ \A j \in BackendIds : j < i => bk[j].pc # "idle"

\* a settled call: what it sent and received is dropped from the record
BackendDone(c, outcome, err) ==
  [NoBackendCall EXCEPT !.kind = c.kind, !.pc = "done", !.outcome = outcome, !.error = err]

NullSession == "TypeError: Cannot set properties of null"

\* the world after a step of the refresh model
RefreshStep(w, i, c) ==
  /\ RefreshFrame
  /\ host' = w.h
  /\ pSession' = w.s
  /\ pEmitted' = w.e
  /\ bk' = [bk EXCEPT ![i] = c]

\* getProvider() constructs the provider and awaits restore(), connector.ts
\* lines 314-329 and SessionManager.ts lines 57-107: nothing stored, a valid
\* record, or a record to refresh
GetProviderRestores(i) ==
  /\ BackendFree(i)
  /\ host.providers = 0
  /\ \E w \in {getProvider(World).w}, c \in {[NoBackendCall EXCEPT !.kind = "restore"]} :
       IF w.h.stored = <<>> THEN RefreshStep(w, i, bk[i])
       ELSE IF isSessionValid(w.h.stored, DefaultBufferMinutes, clockNow)
         THEN RefreshStep(providerUpdateSession([w EXCEPT !.h.session = w.h.stored],
                                                w.h.stored[1]),
                          i, bk[i])
       ELSE RefreshStep(w, i, [c EXCEPT !.pc = "refresh", !.refreshes = 1,
                                        !.subject = w.h.stored,
                                        !.refreshSent = w.h.stored[1].refreshToken])

\* a slip: a failed refresh leaves the record in storage
restoreRefreshFailed_KeepsRecord(w) == [w EXCEPT !.h.session = <<>>, !.h.aliased = FALSE]

\* the catch of attemptRefresh, SessionManager.ts lines 132-137
restoreRefreshFailed(w) ==
  [w EXCEPT !.h.session = <<>>, !.h.stored = <<>>, !.h.aliased = FALSE]

\* the refresh request of attemptRefresh is answered, lines 118-137, and
\* getProvider hands the session to the provider, connector.ts lines 330-336
RestoreRefreshResponds(i, result) ==
  /\ bk[i].kind = "restore"
  /\ bk[i].pc = "refresh"
  /\ IF result = <<>>
       THEN \E w \in {restoreRefreshFailed(World)} :
              RefreshStep(w, i, [BackendDone(bk[i], "resolved", "") EXCEPT
                                   !.refreshFailed = TRUE])
       ELSE \E session \in {applyRefresh(bk[i].subject[1], result[1], clockNow)} :
              RefreshStep(providerUpdateSession(
                            [World EXCEPT !.h.session = <<session>>,
                                          !.h.stored = <<session>>], session),
                          i, [BackendDone(bk[i], "resolved", "") EXCEPT
                                !.refreshed = result, !.before = bk[i].subject,
                                !.after = <<session>>, !.persisted = TRUE])

\* the OAuth flow completes, connector.ts lines 135-149 and
\* AuthFlowManager.complete; the model follows the calls of the sessions
\* that began before the first call
RefreshConnect(session) ==
  /\ host.providers > 0
  /\ pSession = <<>>
  /\ \A i \in BackendIds : bk[i].pc = "idle"
  /\ RefreshFrame
  /\ \E w \in {providerUpdateSession([World EXCEPT !.h.session = <<session>>,
                                                   !.h.stored = <<session>>], session)} :
       /\ host' = w.h
       /\ pSession' = w.s
       /\ pEmitted' = w.e
  /\ UNCHANGED bk

\* disconnect() of the connector, lines 269-291
RefreshDisconnect ==
  /\ host.providers > 0
  /\ pSession # <<>>
  /\ RefreshFrame
  /\ \E w \in {providerClose(providerDisconnect(
                 [World EXCEPT !.h.session = <<>>, !.h.stored = <<>>,
                               !.h.aliased = FALSE]))} :
       /\ host' = w.h
       /\ pSession' = w.s
       /\ pEmitted' = w.e
  /\ UNCHANGED bk

\* an operation of the provider calls the backend through withAuthFetch with
\* the session's access token, api.ts line 21
BackendCall(i) ==
  /\ BackendFree(i)
  /\ pSession # <<>>
  /\ RefreshStep(World, i, [NoBackendCall EXCEPT !.kind = "operation", !.pc = "first",
                                                 !.sent = <<pSession[1].accessToken>>])

\* the first answer, api.ts lines 23-30; on a 401 refreshAndPersist begins,
\* provider.ts lines 173-178
FirstResponse(i, status) ==
  /\ bk[i].kind = "operation"
  /\ bk[i].pc = "first"
  /\ RefreshStep(World, i,
       IF status # 401 THEN
         BackendDone(bk[i], IF ResponseOk(status) THEN "resolved" ELSE "rejected",
                     validateApiResponse(status))
       ELSE IF pSession = <<>> THEN BackendDone(bk[i], "rejected", NoActiveSession)
       ELSE [bk[i] EXCEPT !.pc = "refresh", !.refreshes = @ + 1,
                          !.refreshSent = pSession[1].refreshToken])

\* refreshAccessToken throws inside refreshAndPersist, provider.ts line 178:
\* nothing catches it before withAuthFetch's caller
refreshFailed(w) == w

\* the answer to the refresh request, provider.ts lines 178-183: the three
\* assignments and the call of storage.setSession, whose write goes through
\* or not
RefreshResponds(i, result, stored) ==
  /\ bk[i].kind = "operation"
  /\ bk[i].pc = "refresh"
  /\ IF result = <<>>
       THEN \E w \in {refreshFailed(World)} :
              RefreshStep(w, i, [BackendDone(bk[i], "rejected", RefreshFailed) EXCEPT
                                   !.refreshFailed = TRUE])
     ELSE IF pSession = <<>>
       THEN RefreshStep(World, i, BackendDone(bk[i], "rejected", NullSession))
     ELSE \E session \in {applyRefresh(pSession[1], result[1], clockNow)} :
            RefreshStep([World EXCEPT !.s = <<session>>,
                                      !.h.session = IF host.aliased THEN <<session>> ELSE @,
                                      !.h.stored = IF stored THEN <<session>> ELSE @],
                        i, [bk[i] EXCEPT !.pc = "persist", !.refreshed = result,
                                         !.before = pSession, !.after = <<session>>,
                                         !.persisted = stored])

\* setSession has settled and refreshAndPersist returns the session's access
\* token, provider.ts line 188; withAuthFetch retries with it, api.ts line 26
PersistSettles(i) ==
  /\ bk[i].kind = "operation"
  /\ bk[i].pc = "persist"
  /\ RefreshStep(World, i,
       IF pSession = <<>> THEN BackendDone(bk[i], "rejected", NullSession)
       ELSE [bk[i] EXCEPT !.pc = "retry", !.returned = pSession[1].accessToken,
                          !.sent = Append(@, pSession[1].accessToken)])

\* the answer to the retry, api.ts lines 29-30
RetryResponse(i, status) ==
  /\ bk[i].kind = "operation"
  /\ bk[i].pc = "retry"
  /\ RefreshStep(World, i,
       BackendDone(bk[i], IF ResponseOk(status) THEN "resolved" ELSE "rejected",
                   validateApiResponse(status)))

RefreshStatuses == {200, 401}
\* the refresh request of call i fails (<<>>) or is answered
RefreshTokens == <<"tok1", "tok2", "tok3", "tok4">>
RefreshResults(i) == {<<>>, <<ResponseWith(RefreshTokens[i])>>}

RefreshNext ==
  \/ \E i \in BackendIds : GetProviderRestores(i)
  \/ \E i \in BackendIds : \E r \in RefreshResults(i) : RestoreRefreshResponds(i, r)
  \/ \E s \in HostAuthSessions : RefreshConnect(s)
  \/ RefreshDisconnect
  \/ \E i \in BackendIds : BackendCall(i)
  \/ \E i \in BackendIds, st \in RefreshStatuses : FirstResponse(i, st)
  \/ \E i \in BackendIds : \E r \in RefreshResults(i), stored \in BOOLEAN :
       RefreshResponds(i, r, stored)
  \/ \E i \in BackendIds : PersistSettles(i)
  \/ \E i \in BackendIds, st \in RefreshStatuses : RetryResponse(i, st)

\* restore() of call i has read an expired record and awaits the answer to
\* its refresh request, SessionManager.ts lines 59-107 and 115-118
RestoreRefreshBegins(i) ==
  /\ calls[i].pc \in {"gpRestore", "setupRestore", "authRestore"}
  /\ calls[i].refreshing = <<>>
  /\ host.stored # <<>>
  /\ ~ isSessionValid(host.stored, DefaultBufferMinutes, clockNow)
  /\ Step(i, [w |-> World, c |-> [calls[i] EXCEPT !.refreshing = host.stored]], FALSE)

\* the caller of restore() goes on with what it returned
afterRestore(w0, c0, restored) ==
  Once(w0, LAMBDA w :
  LET c == [c0 EXCEPT !.refreshing = <<>>]
  IN  IF c.pc = "gpRestore"
        THEN afterGetProvider(IF restored # <<>>
                                THEN providerUpdateSession(w, restored[1]) ELSE w,
                              [c EXCEPT !.pc = "running"])
      ELSE IF c.pc = "setupRestore"
        THEN setupDone(w, [c EXCEPT !.pc = "running"], TRUE)
      ELSE [w |-> w, c |-> [CallSettled(c, "resolved", "") EXCEPT
                              !.authorized = SessionManagerIsValid(w.h.session, clockNow)]])

\* the refresh request of attemptRefresh is answered, lines 118-137: the
\* session is built from the record read before, set and written to storage;
\* or the record is removed
RestoreRefreshSettles(i, ok) ==
  /\ calls[i].pc \in {"gpRestore", "setupRestore", "authRestore"}
  /\ calls[i].refreshing # <<>>
  /\ LET session == applyRefresh(calls[i].refreshing[1], ResponseWith("tok1"), clockNow)
         w == IF ok THEN [World EXCEPT !.h.session = <<session>>, !.h.stored = <<session>>,
                                       !.h.aliased = FALSE]
              ELSE restoreRefreshFailed(World)
     IN  Step(i, afterRestore(w, calls[i], w.h.session), FALSE)

\* disconnect() while the calls that restore the session are in flight
FinalNext ==
  \/ \E i \in CallIds : CallSetup(i)
  \/ \E i \in CallIds : CallIsAuthorized(i)
  \/ \E i \in CallIds : CallDisconnect(i)
  \/ \E i \in CallIds, env \in HostRestoreEnvs :
       calls[i].refreshing = <<>> /\ RestoreSettles(i, env)
  \/ \E i \in CallIds : RestoreRefreshBegins(i)
  \/ \E i \in CallIds, ok \in BOOLEAN : RestoreRefreshSettles(i, ok)
  \/ \E i \in CallIds : RemoveSettles(i)

---------------------------------------------------------------------------
(* AuthFlowManager.initiate and complete (SessionManager.ts lines 219-324)  *)
(* run by connect() calls that overlap on one connector: every attempt      *)
(* keeps its PKCE triple under the one key PKCE_STORAGE_KEY of              *)
(* sessionStorage, and every openAuthWindow listens on the same window      *)

\* a slip: a triple already stored is kept
StorePkce_KeepsFirst(store, pkceParams) == IF store = <<>> THEN <<pkceParams>> ELSE store

\* sessionStorage.setItem(PKCE_STORAGE_KEY, ...), line 227: the item is replaced
StorePkce(store, pkceParams) == <<pkceParams>>

\* generatePKCEParams, part_000 lines 92-102: a fresh verifier, its S256
\* challenge and a fresh state
generatePKCEParams(i) ==
  [codeVerifier |-> <<"verifier", i>>,
   codeChallenge |-> <<"S256", <<"verifier", i>>>>,
   state |-> <<"state", i>>]

\* buildAuthUrl, part_003 lines 19-21: what the URL carries of the triple
buildAuthUrl(pkceParams) ==
  [code_challenge |-> pkceParams.codeChallenge, state |-> pkceParams.state]

\* the {code, state} the authorization page of attempt j answers with
AuthAnswer(j) == [code |-> <<"code", j>>, state |-> generatePKCEParams(j).state]

NoAttempt ==
  [pc |-> "idle", gen |-> 0, url |-> <<>>, got |-> <<>>, exchanged |-> <<>>,
   outcome |-> "pending", error |-> ""]

PkceIdle ==
  px = [store |-> <<>>, gens |-> 0, connected |-> FALSE, at |-> [i \in CallIds |-> NoAttempt]]

PkceFrame ==
  UNCHANGED <<fetchVars, statusVars, validityVars, providerVars, listenerVars, connVars,
              hostVars, storageVars, refreshVars, pollVars, receiptVars>>

AttemptFailed(a, err) == [a EXCEPT !.pc = "done", !.outcome = "rejected", !.error = err]

\* complete() up to the token request, lines 268-286: the stored triple is
\* read; the code is exchanged with its verifier
completeBegins(store, a, callbackData) ==
  IF store = <<>>
    THEN AttemptFailed([a EXCEPT !.got = <<callbackData>>], MissingPkce)
    ELSE [a EXCEPT !.pc = "exchange", !.got = <<callbackData>>,
                   !.exchanged = <<[code |-> callbackData.code,
                                     codeVerifier |-> store[1].codeVerifier]>>]

\* connect() finds no account and calls initiate(), which awaits
\* generatePKCEParams (connector.ts lines 128-135, line 231)
AttemptInitiate(i) ==
  /\ PkceFrame
  /\ px.at[i].pc = "idle"
  /\ ~ px.connected
  /\ px' = [px EXCEPT !.at[i].pc = "pkce"]

\* lines 224-244: the triple is stored, the URL built and the window opened
AttemptStores(i) ==
  /\ PkceFrame
  /\ px.at[i].pc = "pkce"
  /\ px' = [px EXCEPT !.store = StorePkce(px.store, generatePKCEParams(i)),
                      !.gens = @ + 1,
                      !.at[i] = [@ EXCEPT !.pc = "window", !.gen = px.gens + 1,
                                          !.url = <<buildAuthUrl(generatePKCEParams(i))>>]]

\* the page of attempt j posts NYKNYC_AUTH_SUCCESS (part_002 lines 289-311):
\* the handler of every attempt that still listens takes the message, no
\* handler looking at its state, and each goes on into complete()
AttemptPostMessage(j) ==
  /\ PkceFrame
  /\ px.at[j].pc = "window"
  /\ px' = [px EXCEPT !.at = [i \in CallIds |->
                                IF px.at[i].pc = "window"
                                  THEN completeBegins(px.store, px.at[i], AuthAnswer(j))
                                  ELSE px.at[i]]]

\* the polling of attempt i, which asks for its own state, answers completed
\* (part_002 lines 333-345)
AttemptPollCompletes(i) ==
  /\ PkceFrame
  /\ px.at[i].pc = "window"
  /\ px' = [px EXCEPT !.at[i] = completeBegins(px.store, px.at[i], AuthAnswer(i))]

\* openAuthWindow rejects; the catch of connect() calls cleanup()
\* (connector.ts lines 251-256, SessionManager.ts lines 330-333)
AttemptWindowRejects(i) ==
  /\ PkceFrame
  /\ px.at[i].pc = "window"
  /\ px' = [px EXCEPT !.store = <<>>,
                      !.at[i] = AttemptFailed(@, AuthenticationFailed)]

\* one of the three awaits of complete() settles, lines 279-323: a failure
\* removes the item and rejects; the last success removes it and resolves
AttemptAwaitSettles(i, ok) ==
  /\ PkceFrame
  /\ px.at[i].pc \in {"exchange", "userinfo", "persist"}
  /\ px' = IF ~ ok
             THEN [px EXCEPT !.store = <<>>,
                             !.at[i] = AttemptFailed(@, IF px.at[i].pc = "exchange" THEN ExchangeFailed
                                                        ELSE IF px.at[i].pc = "userinfo" THEN UserInfoFailed
                                                        ELSE PersistFailed)]
           ELSE IF px.at[i].pc = "exchange" THEN [px EXCEPT !.at[i].pc = "userinfo"]
           ELSE IF px.at[i].pc = "userinfo" THEN [px EXCEPT !.at[i].pc = "persist"]
           ELSE [px EXCEPT !.store = <<>>, !.connected = TRUE,
                           !.at[i] = [@ EXCEPT !.pc = "done", !.outcome = "resolved"]]

PkceNext ==
  \/ \E i \in CallIds : AttemptInitiate(i)
  \/ \E i \in CallIds : AttemptStores(i)
  \/ \E j \in CallIds : AttemptPostMessage(j)
  \/ \E i \in CallIds : AttemptPollCompletes(i)
  \/ \E i \in CallIds : AttemptWindowRejects(i)
  \/ \E i \in CallIds, ok \in BOOLEAN : AttemptAwaitSettles(i, ok)

---------------------------------------------------------------------------
(* Specifications *)

InitFetch == FetchIdle /\ StatusIdle /\ ValidityIdle /\ ProviderIdle /\ ConnIdle /\ HostIdle /\ StorageIdle /\ BackendIdle /\ PollIdle /\ ReceiptIdle /\ PkceIdle
NextFetch == FetchNext
SpecFetch == InitFetch /\ [][NextFetch]_vars

InitStatus == FetchIdle /\ StatusDraw /\ ValidityIdle /\ ProviderIdle /\ ConnIdle /\ HostIdle /\ StorageIdle /\ BackendIdle /\ PollIdle /\ ReceiptIdle /\ PkceIdle
NextStatus == StatusNext
SpecStatus == InitStatus /\ [][NextStatus]_vars

InitValidity == FetchIdle /\ StatusIdle /\ ValidityDraw /\ ProviderIdle /\ ConnIdle /\ HostIdle /\ StorageIdle /\ BackendIdle /\ PollIdle /\ ReceiptIdle /\ PkceIdle
NextValidity == ValidityNext
SpecValidity == InitValidity /\ [][NextValidity]_vars

InitChain == FetchIdle /\ StatusIdle /\ ValidityIdle /\ ProviderIdle /\ ConnIdle /\ HostIdle /\ StorageIdle /\ BackendIdle /\ PollIdle /\ ReceiptIdle /\ PkceIdle
NextChain == ChainNext
SpecChain == InitChain /\ [][NextChain]_vars

InitSend == FetchIdle /\ StatusIdle /\ ValidityIdle /\ ProviderIdle /\ ConnIdle /\ HostIdle /\ StorageIdle /\ BackendIdle /\ PollIdle /\ ReceiptIdle /\ PkceIdle
NextSend == SendNext
SpecSend == InitSend /\ [][NextSend]_vars

InitBatch == FetchIdle /\ StatusIdle /\ ValidityIdle /\ ProviderIdle /\ ConnIdle /\ HostIdle /\ StorageIdle /\ BackendIdle /\ PollIdle /\ ReceiptIdle /\ PkceIdle
NextBatch == BatchNext
SpecBatch == InitBatch /\ [][NextBatch]_vars

InitConnect == FetchIdle /\ StatusIdle /\ ValidityIdle /\ ProviderIdle /\ ConnDraw /\ HostIdle /\ StorageIdle /\ BackendIdle /\ PollIdle /\ ReceiptIdle /\ PkceIdle
NextConnect == ConnectNext
SpecConnect == InitConnect /\ [][NextConnect]_vars

InitRequest == FetchIdle /\ StatusIdle /\ ValidityIdle /\ ProviderIdle /\ ConnIdle /\ HostIdle /\ StorageIdle /\ BackendIdle /\ PollIdle /\ ReceiptIdle /\ PkceIdle
NextRequest == RequestNext
SpecRequest == InitRequest /\ [][NextRequest]_vars

\* the provider's listener registry under registrations, removals and the
\* operations that emit
ListenerSessions == {Session("0xWalletA", 1, TRUE, {1, 10}, "tok0")}

HostListeners ==
  {Listener("first", 0, FALSE), Listener("second", 0, TRUE), Listener("third", 0, TRUE)}

ListenerEvents == {"accountsChanged", "chainChanged"}

ListenersNext ==
  \/ \E e \in ListenerEvents, l \in HostListeners : On(e, l)
  \/ \E e \in ListenerEvents, l \in HostListeners : RemoveListener(e, l)
  \/ ProviderClose
  \/ \E s \in ListenerSessions : UpdateSession(s)
  \/ ClearSession
  \/ \E c \in {<<"0","x","1">>, <<"0","x","a">>} : SwitchChain(c)

InitListeners == FetchIdle /\ StatusIdle /\ ValidityIdle /\ ProviderIdle /\ ConnIdle /\ HostIdle /\ StorageIdle /\ BackendIdle /\ PollIdle /\ ReceiptIdle /\ PkceIdle
NextListeners == ListenersNext
SpecListeners == InitListeners /\ [][NextListeners]_vars

InitOverlap == FetchIdle /\ StatusIdle /\ ValidityIdle /\ ProviderIdle /\ ConnIdle /\ HostDraw /\ StorageIdle /\ BackendIdle /\ PollIdle /\ ReceiptIdle /\ PkceIdle
NextOverlap == OverlapNext
SpecOverlap == InitOverlap /\ [][NextOverlap]_vars

InitLifecycle == FetchIdle /\ StatusIdle /\ ValidityIdle /\ ProviderIdle /\ ConnIdle /\ HostDraw /\ StorageIdle /\ BackendIdle /\ PollIdle /\ ReceiptIdle /\ PkceIdle
NextLifecycle == LifecycleNext
SpecLifecycle == InitLifecycle /\ [][NextLifecycle]_vars

InitStorage == FetchIdle /\ StatusIdle /\ ValidityIdle /\ ProviderIdle /\ ConnIdle /\ HostIdle /\ StorageDraw /\ BackendIdle /\ PollIdle /\ ReceiptIdle /\ PkceIdle
NextStorage == StorageNext
SpecStorage == InitStorage /\ [][NextStorage]_vars

InitRefresh == FetchIdle /\ StatusIdle /\ ValidityIdle /\ ProviderIdle /\ ConnIdle /\ RefreshDraw /\ StorageIdle /\ BackendIdle /\ PollIdle /\ ReceiptIdle /\ PkceIdle
NextRefresh == RefreshNext
SpecRefresh == InitRefresh /\ [][NextRefresh]_vars

InitValue == FetchIdle /\ StatusIdle /\ ValidityIdle /\ ProviderIdle /\ ConnIdle /\ HostIdle /\ StorageIdle /\ BackendIdle /\ PollIdle /\ ReceiptIdle /\ PkceIdle
NextValue == ValueNext
SpecValue == InitValue /\ [][NextValue]_vars

InitPoll == FetchIdle /\ StatusIdle /\ ValidityIdle /\ ProviderIdle /\ ConnIdle /\ HostIdle /\ StorageIdle /\ BackendIdle /\ PollIdle /\ ReceiptIdle /\ PkceIdle
NextPoll == PollNext
SpecPoll == InitPoll /\ [][NextPoll]_vars

\* the batch operations together with close()
NextBatchLife == BatchNext \/ ProviderClose
SpecBatchLife == InitBatch /\ [][NextBatchLife]_vars

InitReceipt == FetchIdle /\ StatusIdle /\ ValidityIdle /\ ProviderIdle /\ ConnIdle /\ HostIdle /\ StorageIdle /\ BackendIdle /\ PollIdle /\ ReceiptDraw /\ PkceIdle
NextReceipt == ReceiptNext
SpecReceipt == InitReceipt /\ [][NextReceipt]_vars

InitPkce == FetchIdle /\ StatusIdle /\ ValidityIdle /\ ProviderIdle /\ ConnIdle /\ HostIdle /\ StorageIdle /\ BackendIdle /\ PollIdle /\ ReceiptIdle /\ PkceIdle
NextPkce == PkceNext
SpecPkce == InitPkce /\ [][NextPkce]_vars

\* the four operations that open a review window, from start to settlement.
\* ReviewProgress are the steps the program and the backend take by
\* themselves; the user's steps (the retry button of the snackbar, closing
\* the pre-opened window) and the host's calls are left to chance
ReviewPayloads ==
  {p \in TxPayloads : p.hash # "0xdef" /\ p.error = "" /\ p.status \in {Str(W_pending), Str(W_failed)}}
ReviewSignPayloads ==
  {p \in SignPayloads : p.finalSignature = NoSignature /\ p.error = ""
                         /\ p.status \in {"pending", "signed", "rejected"}}

ReviewStarts ==
  \/ \E s \in SignSessions : UpdateSession(s)
  \/ \E w \in PreWindows : SendTransaction(w)
  \/ \E w \in PreWindows : PersonalSign(<<"H","i">>, w)
  \/ \E w \in PreWindows : SignTypedData("object", w)
  \/ WalletSendCalls(1, <<"0","x","1">>)

ReviewUser ==
  \/ UserClosesPreWindow
  \/ \E how \in {"reuse", "opened", "blocked"} : SnackbarRetry(how)
  \/ \E opened \in BOOLEAN, id \in BatchIds : BatchSnackbarRetry(opened, id)

ReviewProgress ==
  \/ \E res \in RequestBackendErrors \cup {"ok"}, id \in SendTxIds : CreateTransaction(res, id, "none")
  \/ \E res \in RequestBackendErrors \cup {"ok"}, id \in SignIds : CreateSignRequest(res, id, "none")
  \/ \E res \in RequestBackendErrors \cup {"ok"} : BatchCreate(res, "tx1", "none")
  \/ \E how \in {"reuse", "opened", "blocked"} : OpenSigningWindow(how)
  \/ \E opened \in BOOLEAN, id \in BatchIds : BatchOpenWindow(opened, id)
  \/ SnackbarImportFails
  \/ BatchSnackbarImportFails
  \/ \E p \in ReviewPayloads : PollTransaction(p, "none")
  \/ \E e \in RequestBackendErrors : PollTransactionFails(e, "none")
  \/ PollTransactionTimeout
  \/ \E p \in ReviewSignPayloads : PollSign(p, "none")
  \/ \E e \in RequestBackendErrors : PollSignFails(e, "none")
  \/ PollSignTimeout

\* the steps that do not depend on the user while a snackbar is shown
ReviewUnattended == ReviewProgress /\ req.pc # "snackbar"

InitReview == FetchIdle /\ StatusIdle /\ ValidityIdle /\ ProviderIdle /\ ConnIdle /\ HostIdle /\ StorageIdle /\ BackendIdle /\ PollIdle /\ ReceiptIdle /\ PkceIdle
NextReview == ReviewStarts \/ ReviewUser \/ ReviewProgress
SpecReview == InitReview /\ [][NextReview]_vars /\ WF_vars(ReviewUnattended)

\* the host's calls of the connector one after the other, and the provider
\* disconnected by the host between them
AgreeNext ==
  \/ CallSetup(1)
  \/ CallGetProvider(1)
  \/ CallIsAuthorized(1)
  \/ \E ch \in ConnectChains : CallConnect(1, ch, FALSE)
  \/ \E ch \in ReconnectChains : CallConnect(1, ch, TRUE)
  \/ CallDisconnect(1)
  \/ \E env \in HostRestoreEnvs : RestoreSettles(1, env)
  \/ \E s \in HostAuthSessions : OAuthResolves(1, s)
  \/ \E p \in BOOLEAN, s \in HostAuthSessions : OAuthRejects(1, p, s)
  \/ RemoveSettles(1)
  \/ HandlerRemoveSettles
  \/ HostProviderDisconnect

InitAgree == FetchIdle /\ StatusIdle /\ ValidityIdle /\ ProviderIdle /\ ConnIdle /\ HostDraw /\ StorageIdle /\ BackendIdle /\ PollIdle /\ ReceiptIdle /\ PkceIdle
NextAgree == AgreeNext
SpecAgree == InitAgree /\ [][NextAgree]_vars

InitRoundTrip == FetchIdle /\ StatusIdle /\ ValidityIdle /\ ProviderIdle /\ ConnIdle /\ HostIdle /\ StorageDraw /\ BackendIdle /\ PollIdle /\ ReceiptIdle /\ PkceIdle
NextRoundTrip == RoundTripNext
SpecRoundTrip == InitRoundTrip /\ [][NextRoundTrip]_vars

InitFinal == FetchIdle /\ StatusIdle /\ ValidityIdle /\ ProviderIdle /\ ConnIdle /\ HostDraw /\ StorageIdle /\ BackendIdle /\ PollIdle /\ ReceiptIdle /\ PkceIdle
NextFinal == FinalNext
SpecFinal == InitFinal /\ [][NextFinal]_vars

InitSign == FetchIdle /\ StatusIdle /\ ValidityIdle /\ ProviderIdle /\ ConnIdle /\ HostIdle /\ StorageIdle /\ BackendIdle /\ PollIdle /\ ReceiptIdle /\ PkceIdle
NextSign == SignNext
SpecSign == InitSign /\ [][NextSign]_vars

---------------------------------------------------------------------------
(* Claims about withAuthFetch *)

FirstWas401WithCallback ==
  fCb /\ Len(fResponses) >= 1 /\ fResponses[1] = 401

\* C1 (as amended): a call through withAuthFetch invokes the request function at
\* most twice and the refresh callback at most once. When the first response is
\* 401 and a callback is supplied, the callback is invoked exactly once; if it
\* returns a token the request is retried exactly once with that token and the
\* caller receives the outcome of the retry (a second 401 included); if the
\* callback throws there is no retry and the caller receives its error. When the
\* first response is not 401, or no callback is supplied, there is no refresh and
\* no retry.
C1_SingleRefreshAndRetry ==
  /\ Len(fTokens) <= 2
  /\ fRefreshes <= 1
  /\ fPc = "done" =>
       IF FirstWas401WithCallback
         THEN /\ fRefreshes = 1
              /\ IF fNewToken # None
                   THEN /\ Len(fTokens) = 2
                        /\ fTokens[2] = fNewToken
                        /\ Len(fResponses) = 2
                        /\ IF fResponses[2] = NetErr THEN fResult = NetworkError
                           ELSE IF fResponses[2] \in 200 .. 299
                             THEN fResult \in {"ok", JsonError}
                             ELSE fResult = validateApiResponse(fResponses[2])
                        /\ (fResponses[2] = 401 => fResult \notin {"ok", JsonError})
                   ELSE /\ Len(fTokens) = 1
                        /\ fResult = RefreshFailed
         ELSE /\ fRefreshes = 0
              /\ Len(fTokens) = 1
              /\ fTokens[1] = fAccess

\* C1 witness: a 401, one refresh, a retry with the new token answering 401 again
C1_Witness ==
  /\ fPc = "done"
  /\ FirstWas401WithCallback
  /\ fRefreshes = 1
  /\ fTokens = <<fAccess, fNewToken>>
  /\ fResponses = <<401, 401>>
  /\ fResult = "Authentication failed. Please reconnect your wallet."

\* C1 as stated originally: after a first 401 with a callback supplied the
\* request is always retried exactly once with the returned token
C1_Original ==
  (fPc = "done" /\ FirstWas401WithCallback) =>
    /\ fRefreshes = 1
    /\ Len(fTokens) = 2
    /\ fTokens[2] = fNewToken
    /\ fNewToken # None

---------------------------------------------------------------------------
(* Claims about mapStatus *)

\* the raw status matches a case label, ignoring letter case
InSynonymTable(v) ==
  /\ v.type = "string"
  /\ \E w \in SynonymTable :
       /\ Len(w) = Len(v.chars)
       /\ \A i \in 1 .. Len(w) : w[i] = v.chars[i] \/ UpperChar(w[i]) = v.chars[i]

\* C9: status normalization is total and idempotent: every input, string in any
\* letter case or non-string, maps to one of the five canonical statuses;
\* normalizing a normalized status changes nothing; every input outside the
\* synonym table maps to pending_signature (never to completed).
C9_NormalizeTotalIdempotent ==
  /\ msOnce # Unset => msOnce \in CanonicalStatuses
  /\ msTwice # Unset => msTwice = msOnce
  /\ (msOnce # Unset /\ ~ InSynonymTable(msInput)) => msOnce = Str(W_pending_signature)

\* C9 witness: an upper-case synonym normalized twice, and an unknown word
\* that looks like success normalized to pending_signature
C9_Witness ==
  /\ msTwice # Unset
  /\ \/ msInput = Str(<<"M","I","N","E","D">>) /\ msTwice = Str(W_completed)
     \/ msInput = Str(<<"s","u","c","c","e","s","s","f","u","l">>)
          /\ msTwice = Str(W_pending_signature)

---------------------------------------------------------------------------
(* Claims about session validity *)

\* C8: session validity is exactly now < expiry - buffer with the default buffer
\* of 5 minutes: invalid at now = expiry - buffer and later, valid earlier, and a
\* missing session is always invalid.
C8_ValidityIsTimePredicate ==
  validChecked =>
    (validResult <=>
       (smSession # <<>> /\ clockNow < smSession[1].expiresAt - 5 * 60 * 1000))

\* C8 witness: the check made exactly at expiry - buffer answers invalid
C8_Witness ==
  /\ validChecked
  /\ smSession # <<>>
  /\ clockNow = smSession[1].expiresAt - 300000
  /\ validResult = FALSE

---------------------------------------------------------------------------
(* Claims about eth_sendTransaction and waitForTransactionHash *)

SendDone == req.method = "eth_sendTransaction" /\ req.pc = "done"

\* C2: once a status poll of waitForTransactionHash has carried a transaction
\* hash, that poll was the last one (the number of polls issued equals the
\* index of the first poll with a hash), whatever the status it came with, and
\* eth_sendTransaction has resolved with exactly the hash of that poll.
C2_ResolvesAtFirstHash ==
  (req.method = "eth_sendTransaction" /\ req.firstHashPoll # 0) =>
    /\ req.pc = "done"
    /\ req.outcome = "resolved"
    /\ req.value = req.hashSeen
    /\ req.polls = req.firstHashPoll

\* the spec's scenario: no hash at the first poll, hash 0xabc with status
\* broadcasted at the second, and the request resolved there
C2_Witness ==
  /\ SendDone
  /\ req.outcome = "resolved"
  /\ req.firstHashPoll = 2
  /\ req.polls = 2
  /\ req.statusSeen = Str(W_broadcasted)
  /\ req.value = "0xabc"

---------------------------------------------------------------------------
(* Claims about wallet_switchEthereumChain / wallet_addEthereumChain *)

\* the chain ids the well-formed inputs name, written out independently of
\* the parsing
NamedChain(arg) ==
  CASE arg = <<"0","x","1">> -> 1
    [] arg = <<"0","x","a">> -> 10
    [] arg = <<"0","x","A">> -> 10
    [] arg = <<"0","x","3","e","7">> -> 999
    [] OTHER -> NaN

ChainRequestDone ==
  /\ req.method \in {"wallet_switchEthereumChain", "wallet_addEthereumChain"}
  /\ req.pc = "done"
  /\ req.hadSession
  /\ NamedChain(req.arg) # NaN

HasEvent(name) == \E i \in DOMAIN pEmitted : pEmitted[i].name = name

\* C4: after a switch/add request naming chain n on a session whose allowlist
\* excludes n, the request is rejected with an error naming n, the session's
\* chain id is the one it had before and no chainChanged event was emitted;
\* after a switch request on a session with no allowlist or one that includes
\* n, the session's chain id is n.
C4_AllowlistGuardsChainSwitch ==
  ChainRequestDone =>
    LET n == NamedChain(req.arg)
        session == pSession[1]
    IN  IF session.hasSupportedChains /\ n \notin session.supportedChains
          THEN /\ req.outcome = "rejected"
               /\ req.value = "Chain " \o ToString(n) \o " is not supported by NYKNYC wallet"
               /\ session.chainId = req.chainBefore
               /\ ~ HasEvent("chainChanged")
          ELSE req.method = "wallet_switchEthereumChain" =>
                 /\ req.outcome = "resolved"
                 /\ session.chainId = n

\* the spec's scenario: supportedChains = [1, 10], a switch to 999 is rejected
\* and the chain stays 1
C4_Witness ==
  /\ ChainRequestDone
  /\ req.method = "wallet_switchEthereumChain"
  /\ NamedChain(req.arg) = 999
  /\ pSession[1].hasSupportedChains
  /\ pSession[1].supportedChains = {1, 10}
  /\ req.outcome = "rejected"
  /\ req.value = "Chain 999 is not supported by NYKNYC wallet"
  /\ pSession[1].chainId = 1

---------------------------------------------------------------------------
(* Claims about the error event of the send and sign operations *)

ErrorEvents == SelectSeq(pEmitted, LAMBDA e : e.name = "error")

RejectedWithSession ==
  /\ req.method \in Flows
  /\ req.pc = "done"
  /\ req.outcome = "rejected"
  /\ req.hadSession

\* C10: whenever a send or sign request made with an active session has been
\* rejected, exactly one 'error' event carrying the same error has been
\* emitted for it.
C10_ErrorEventOnEveryRejection ==
  RejectedWithSession => ErrorEvents = <<Event("error", <<req.value>>)>>

\* what the code does: the event accompanies the rejections raised inside the
\* try blocks; the two failures raised before them (a strict-hex message of
\* odd length, typed data JSON.parse throws on) reject with no event and
\* leave the pre-opened window as it is
C10_ErrorEventOnCaughtRejections ==
  RejectedWithSession =>
    IF req.value \in {InvalidHexMessage, JsonSyntaxError}
      THEN ErrorEvents = <<>> /\ req.preWindow \in PreWindows
      ELSE ErrorEvents = <<Event("error", <<req.value>>)>>

\* personal_sign of "0xabc" with a session: rejected, nothing emitted, the
\* about:blank window still open
C10_Witness ==
  /\ RejectedWithSession
  /\ req.method = "personal_sign"
  /\ req.arg = <<"0","x","a","b","c">>
  /\ req.value = InvalidHexMessage
  /\ pEmitted = <<>>
  /\ req.preWindow = "open"

---------------------------------------------------------------------------
(* Claims about wallet_getCallsReceipt *)

ReceiptReturned ==
  /\ req.method = "wallet_getCallsReceipt"
  /\ req.pc = "done"
  /\ req.outcome = "resolved"

\* C3: a result of wallet_getCallsReceipt for a known batch id is PENDING
\* without a receipts field, or CONFIRMED with exactly one receipt per member
\* transaction, in call order, each carrying the hash of that member; it is
\* PENDING whenever the status of some member came without a hash.
C3_ReceiptsAllOrNothing ==
  ReceiptReturned =>
    LET txIds == pBatches[req.batchId]
        result == req.receipt
    IN  /\ result.status \in {"PENDING", "CONFIRMED"}
        /\ req.hashless => result.status = "PENDING"
        /\ result.status = "PENDING" =>
             ~ result.hasReceipts /\ result.receipts = <<>>
        /\ result.status = "CONFIRMED" =>
             /\ result.hasReceipts
             /\ Len(result.receipts) = Len(txIds)
             /\ \A i \in DOMAIN txIds :
                  result.receipts[i].transactionHash = HashOfTx(txIds[i])

\* the spec's scenario: two calls, the first completed with its hash, the
\* second without a hash yet, and the result is PENDING with no receipts
C3_Witness ==
  /\ ReceiptReturned
  /\ Len(pBatches[req.batchId]) = 2
  /\ HasHash(req.gathered[1])
  /\ req.gathered[1].status = Str(W_completed)
  /\ ~ HasHash(req.gathered[2])
  /\ req.receipt = Pending

---------------------------------------------------------------------------
(* Claims about connect({isReconnecting: true}) *)

\* a reconnecting connect() has settled, and no session was cached: none was
\* held in memory when it started and no restore during the call produced one
ReconnectedWithoutCache ==
  /\ conn.pc = "done"
  /\ conn.reconnecting
  /\ conn.startSession = <<>>
  /\ ~ conn.restoredNow

NoOAuthNoWindowNoListeners ==
  /\ ~ conn.oauthStarted
  /\ auth.pc = "idle"
  /\ auth.exchanges = <<>>
  /\ conn.windows = <<>>
  /\ ~ conn.attachedNow
  /\ ~ conn.attached

\* C5 as stated: a reconnecting connect() with no cached session rejects with
\* 'No cached session available for reconnection', starts no OAuth flow,
\* opens no window and attaches no provider listeners.
C5_Original ==
  ReconnectedWithoutCache =>
    /\ conn.outcome = "rejected"
    /\ conn.error = NoCachedSession
    /\ NoOAuthNoWindowNoListeners

\* C5, amended: the same, where the environment passes the crypto-support
\* check of getProvider(); where it does not, the call rejects with the
\* crypto-support error, again with no OAuth flow, window or listener.
C5_ReconnectWithoutCacheFailsFast ==
  ReconnectedWithoutCache =>
    /\ conn.outcome = "rejected"
    /\ conn.error = IF conn.cryptoOk THEN NoCachedSession ELSE CryptoUnavailable
    /\ NoOAuthNoWindowNoListeners

\* an expired stored session whose refresh failed: nothing restorable, and the
\* reconnection was rejected with the no-cached-session error
C5_Witness ==
  /\ ReconnectedWithoutCache
  /\ conn.cryptoOk
  /\ conn.provider
  /\ conn.stored = <<>>
  /\ conn.outcome = "rejected"
  /\ conn.error = NoCachedSession

---------------------------------------------------------------------------
(* Claims about the OAuth attempt *)

\* the promise of openAuthWindow was resolved with a state other than the one
\* stored in PendingAuth for this attempt
DeliveredForeignState ==
  /\ Len(auth.settles) > 0
  /\ auth.settles[1].kind = "resolve"
  /\ auth.settles[1].state # auth.expected

InvalidState == "Invalid state parameter. Possible CSRF attack."

\* C6: when the completion path delivers a state that differs from the stored
\* one, no code-exchange request is sent, no session is created, and the
\* attempt fails with the state-mismatch error.
C6_StateComparedBeforeExchange ==
  DeliveredForeignState =>
    /\ auth.exchanges = <<>>
    /\ conn.session = <<>>
    /\ conn.pc = "done" => (conn.outcome = "rejected" /\ conn.error = InvalidState)

\* what the code does: the polling path always hands back the stored state;
\* the postMessage path hands back the state of the message, and complete()
\* exchanges the delivered code with the stored verifier without looking at it
C6_ExchangeIgnoresState ==
  /\ \A i \in DOMAIN auth.settles :
       (auth.settles[i].kind = "resolve" /\ auth.settles[i].code = "codeP")
         => auth.settles[i].state = auth.expected
  /\ \A i \in DOMAIN auth.exchanges :
       /\ auth.exchanges[i].code = auth.code
       /\ \E pk \in PkceSamples : /\ pk.state = auth.expected
                                  /\ px.codeVerifier = auth.exchanges[i].codeVerifier

\* a message with state "evil" completed the attempt: the code was exchanged
\* with the verifier and connect() resolved with a session
C6_Witness ==
  /\ DeliveredForeignState
  /\ auth.state = "evil"
  /\ auth.exchanges # <<>>
  /\ conn.pc = "done"
  /\ conn.outcome = "resolved"
  /\ conn.session # <<>>

\* C7: the promise of one openAuthWindow attempt is settled by at most one
\* call of resolve or reject, whichever of postMessage, polling result, timer
\* or window-open failure comes first; a result that arrives later makes no
\* further call; the caller goes on to the code exchange only after a
\* resolution, and a rejection is the error connect() rejects with.
C7_SettledExactlyOnce ==
  /\ Len(auth.settles) <= 1
  /\ auth.late = 1 => Len(auth.settles) = 1
  /\ auth.pc \in {"exchange", "userinfo", "persist"} =>
       (Len(auth.settles) = 1 /\ auth.settles[1].kind = "resolve")
  /\ auth.pc = "waiting" => (auth.settles = <<>> /\ auth.timer /\ auth.listening)
  /\ (auth.settles # <<>> /\ auth.settles[1].kind = "reject" /\ conn.pc # "idle") =>
       (conn.pc = "done" /\ conn.outcome = "rejected" /\ conn.error = auth.settles[1].error)

\* postMessage won, and the polling result arrived afterwards and was dropped
C7_Witness ==
  /\ Len(auth.settles) = 1
  /\ auth.settles[1].kind = "resolve"
  /\ auth.settles[1].code = "codeM"
  /\ auth.polling = "ended"
  /\ auth.late = 1

---------------------------------------------------------------------------
(* Claims about request() with no session *)

SessionMethods ==
  {"eth_chainId", "eth_sendTransaction", "personal_sign", "eth_signTypedData_v4",
   "wallet_switchEthereumChain", "wallet_addEthereumChain", "wallet_getCapabilities",
   "wallet_sendCalls", "wallet_getCallsReceipt"}

AccountMethods == {"eth_accounts", "eth_requestAccounts"}

\* a request made with no session has settled
SettledWithoutSession(methods) ==
  /\ req.method \in methods
  /\ req.pc = "done"
  /\ ~ req.hadSession

NoSideEffect ==
  /\ req.backend = 0
  /\ pWindows = <<>>
  /\ pEmitted = <<>>
  /\ pSession = <<>>

\* the step in which a request made with no session settles
SettlesWithoutSession ==
  /\ pSession = <<>>
  /\ req'.method \in SessionMethods \cup AccountMethods
  /\ req'.pc = "done"
  /\ req' # req

\* C11 as stated: with no session every session-requiring method is rejected
\* with 'No active session'.
C11_Original ==
  SettledWithoutSession(SessionMethods) =>
    (req.outcome = "rejected" /\ req.value = NoActiveSession)

\* C11, amended: with no session, every session-requiring method is rejected
\* with no backend request, no window, no event and the batch map as it was;
\* the error is 'No active session', except that wallet_switchEthereumChain
\* called without a parameter object fails with the TypeError of reading
\* params[0].chainId; eth_accounts and eth_requestAccounts resolve with [].
C11_NoSessionNoSideEffect ==
  /\ [](SettledWithoutSession(SessionMethods) =>
          /\ req.outcome = "rejected"
          /\ req.value \in {NoActiveSession, UndefinedParams}
          /\ req.value = UndefinedParams =>
               (req.method = "wallet_switchEthereumChain" /\ req.arg = <<>>)
          /\ NoSideEffect)
  /\ [](SettledWithoutSession(AccountMethods) =>
          /\ req.outcome = "resolved"
          /\ req.value = "[]"
          /\ NoSideEffect)
  /\ [][SettlesWithoutSession => pBatches' = pBatches]_vars

\* a batch was recorded, the session was cleared with updateSession(null), and
\* wallet_getCallsReceipt for that batch is rejected with the batch still there
C11_Witness ==
  /\ SettledWithoutSession({"wallet_getCallsReceipt"})
  /\ req.batchId \in DOMAIN pBatches
  /\ req.outcome = "rejected"
  /\ req.value = NoActiveSession

---------------------------------------------------------------------------
(* Claims about wallet_sendCalls *)

SendCallsRequest == req.method = "wallet_sendCalls"

SendCallsResolved ==
  /\ SendCallsRequest
  /\ req.pc = "done"
  /\ req.outcome = "resolved"

---------------------------------------------------------------------------
(* Claims about the signature personal_sign / eth_signTypedData_v4 return *)

\* the polling of a sign request ended with a status 'signed'
SignedStatusSeen ==
  /\ req.method \in {"personal_sign", "eth_signTypedData_v4"}
  /\ req.signSeen # <<>>
  /\ req.signSeen[1].status = "signed"

\* C13: when the polling ended with status 'signed', the request has resolved
\* with envelope.finalSignature if that is non-empty, and has been rejected
\* with the 'completed but no signature returned' error otherwise.
C13_ResolvesWithFinalSignature ==
  SignedStatusSeen =>
    IF req.signSeen[1].finalSignature # NoSignature
      THEN req.outcome = "resolved" /\ req.value = req.signSeen[1].finalSignature
      ELSE req.outcome = "rejected" /\ req.value = NoSignatureReturned(req.method)

\* what the code does: it reads envelope.signature, resolves with it when it
\* is non-empty and rejects with the no-signature error when it is not,
\* whatever envelope.finalSignature holds
C13_ResolvesWithEnvelopeSignature ==
  SignedStatusSeen =>
    /\ req.pc = "done"
    /\ IF req.signSeen[1].signature # NoSignature
         THEN req.outcome = "resolved" /\ req.value = req.signSeen[1].signature
         ELSE req.outcome = "rejected" /\ req.value = NoSignatureReturned(req.method)

\* a signed status carrying only envelope.finalSignature: personal_sign is
\* rejected as if no signature had been returned
C13_Witness ==
  /\ SignedStatusSeen
  /\ req.method = "personal_sign"
  /\ req.signSeen[1].finalSignature = "0xfinal"
  /\ req.signSeen[1].signature = NoSignature
  /\ req.outcome = "rejected"
  /\ req.value = "Signing completed but no signature returned"

---------------------------------------------------------------------------
(* Claims about the PendingAuth record *)

\* a connect() that started an OAuth attempt has settled
OAuthConnectSettled ==
  /\ conn.pc = "done"
  /\ conn.oauthStarted

\* C14: the PKCE record is in storage only while the connect() that stored it
\* is in flight; once that connect() has settled, resolved or rejected, the
\* record is gone.
C14_PendingAuthRemoved ==
  /\ OAuthConnectSettled => auth.pending = <<>>
  /\ auth.pending # <<>> => (conn.pc = "oauth" /\ auth.pending[1].state = auth.expected)

\* the attempt stored its PKCE record, the 5-minute timer rejected it, and
\* the record is gone
C14_Witness ==
  /\ OAuthConnectSettled
  /\ auth.expected = "S2"
  /\ conn.outcome = "rejected"
  /\ conn.error = AuthTimedOut
  /\ auth.pending = <<>>

---------------------------------------------------------------------------
(* Claims about updateSession *)

\* the hex form of the chain ids of the sessions, written out
ChainHexOf(n) == IF n = 1 THEN <<"0","x","1">> ELSE <<"0","x","a">>

Emitted(e) == \E i \in DOMAIN pEmitted : pEmitted[i] = e

\* C15: after updateSession(session), accountsChanged([address]) has been
\* emitted iff no session was held or the held one had another address,
\* chainChanged(hex id) iff no session was held or the held one had another
\* chain id, and nothing else was emitted (so nothing at all when address and
\* chain are the same); after updateSession(null), accountsChanged([]) has
\* been emitted iff a session was held, and nothing else.
C15_EventsFollowChanges ==
  /\ req.method = "updateSession" =>
       LET new == pSession[1]
           accounts == Event("accountsChanged", <<new.walletAddress>>)
           chain == Event("chainChanged", ChainHexOf(new.chainId))
       IN  /\ Emitted(accounts) <=>
                (req.prev = <<>> \/ req.prev[1].walletAddress # new.walletAddress)
           /\ Emitted(chain) <=>
                (req.prev = <<>> \/ req.prev[1].chainId # new.chainId)
           /\ \A i \in DOMAIN pEmitted : pEmitted[i] \in {accounts, chain}
           /\ Len(pEmitted) <= 2
           /\ Len(pEmitted) = 2 => pEmitted[1] # pEmitted[2]
  /\ req.method = "updateSession(null)" =>
       /\ pSession = <<>>
       /\ pEmitted = IF req.prev # <<>> THEN <<Event("accountsChanged", <<>>)>> ELSE <<>>

\* a session replaced by one with the same address and chain but another
\* allowlist: no event
C15_Witness ==
  /\ req.method = "updateSession"
  /\ req.prev # <<>>
  /\ req.prev # pSession
  /\ req.prev[1].walletAddress = pSession[1].walletAddress
  /\ req.prev[1].chainId = pSession[1].chainId
  /\ pEmitted = <<>>

---------------------------------------------------------------------------
(* Claims about the listener registry *)

\* the listener calls made by the latest operation
Invoked == Emission(pListeners, pEmitted).invoked

TimesInvoked(l, e) ==
  Cardinality({k \in DOMAIN Invoked : Invoked[k] = [listener |-> l, event |-> e]})

\* C16: every listener registered for an emitted event is invoked exactly
\* once with that event, whatever the other listeners do; no listener that is
\* not registered for the event (never added, or removed) is invoked; every
\* thrown error is logged and none leaves emit(), so updateSession returns
\* and an accepted wallet_switchEthereumChain resolves.
C16_ListenersIsolated ==
  /\ \A i \in DOMAIN pEmitted :
       pEmitted[i].name \in DOMAIN pListeners =>
         \A l \in Members(pListeners[pEmitted[i].name]) : TimesInvoked(l, pEmitted[i]) = 1
  /\ \A k \in DOMAIN Invoked :
       /\ Invoked[k].event.name \in DOMAIN pListeners
       /\ Invoked[k].listener \in Members(pListeners[Invoked[k].event.name])
       /\ <<Invoked[k].event.name, Invoked[k].listener>> \notin lRemoved
       /\ \E i \in DOMAIN pEmitted : pEmitted[i] = Invoked[k].event
  /\ Emission(pListeners, pEmitted).logged =
       Cardinality({k \in DOMAIN Invoked : Invoked[k].listener.throws})
  /\ req.method \in {"updateSession", "updateSession(null)"} => req.outcome = "returned"
  /\ (req.method = "wallet_switchEthereumChain" /\ pEmitted # <<>>) => req.outcome = "resolved"

\* chainChanged is emitted to a throwing listener registered before a
\* returning one, after a second throwing listener was removed
C16_Witness ==
  /\ req.method = "wallet_switchEthereumChain"
  /\ req.outcome = "resolved"
  /\ pEmitted = <<Event("chainChanged", <<"0", "x", "a">>)>>
  /\ "chainChanged" \in DOMAIN pListeners
  /\ pListeners["chainChanged"] = <<Listener("second", 0, TRUE), Listener("first", 0, FALSE)>>
  /\ <<"chainChanged", Listener("third", 0, TRUE)>> \in lRemoved
  /\ Len(Invoked) = 2

---------------------------------------------------------------------------
(* Claims about connect() with a cached session *)

NormalConnects == {i \in CallIds : calls[i].op = "connect" /\ ~ calls[i].reconnecting}

NoOAuth(c) == ~ c.oauthStarted /\ c.windows = <<>>

\* C17 as stated: a non-reconnecting connect() that began while a valid
\* session was cached (held by the SessionManager or restorable from storage)
\* never starts the OAuth flow and opens no window, also when it overlaps
\* other calls.
C17_CachedConnectSkipsOAuth ==
  \A i \in NormalConnects : calls[i].cachedAtStart => NoOAuth(calls[i])

\* C17, what holds: a non-reconnecting connect() that began while a valid
\* session was cached and while the provider was not yet constructed or held
\* a session, with the Web Crypto API present, starts no OAuth flow, opens no
\* window, and resolves with an account.
C17_CachedConnectWithProviderSession ==
  \A i \in NormalConnects :
    (calls[i].cachedAtStart /\ calls[i].providerAtStart # "empty" /\ host.cryptoOk) =>
      /\ NoOAuth(calls[i])
      /\ calls[i].pc = "done" =>
            /\ calls[i].outcome = "resolved"
            /\ calls[i].accounts # <<>>

\* a connect() that overlapped another call resolves from the restored
\* session without OAuth
C17_Witness ==
  \E i \in NormalConnects :
    /\ calls[i].cachedAtStart /\ ~ calls[i].alone
    /\ calls[i].providerAtStart = "none"
    /\ calls[i].pc = "done" /\ calls[i].outcome = "resolved"
    /\ calls[i].accounts = <<"0xWalletA">> /\ calls[i].chain = 1
    /\ NoOAuth(calls[i])

---------------------------------------------------------------------------
(* Claims about the chain switch inside connect() *)

\* the errors connector.switchChain can throw, and others of each kind
SwitchErrorSamples ==
  {PlainError(NotConnected), SwitchChainErrorOf(ChainNotConfigured),
   SwitchChainErrorOf(NoActiveSession), SwitchChainErrorOf(ChainNotSupported(137)),
   UserRejectedOf(ChainNotSupported(137))}

\* C18: connect() attempts the switch only when a chain id other than the
\* session's is asked for, and then with the accounts and the session in
\* hand; a switch that succeeds makes connect() resolve with the requested
\* chain id, a switch that fails with anything but a user rejection makes it
\* resolve with the chain id the session had, and a user rejection is thrown
\* on, so that connect() rejects.
C18_SwitchFailureTolerated ==
  /\ \A i \in CallIds :
       LET c == calls[i]
       IN  (c.op = "connect" /\ c.pc = "done") =>
             /\ c.switchTried =>
                   /\ c.chainId # 0 /\ c.chainId # c.chainBefore
                   /\ c.accountsAtSwitch # <<>>
                   /\ c.sessionAtSwitch # <<>>
                   /\ c.sessionAtSwitch[1].chainId = c.chainBefore
                   /\ c.switchError = <<>> => (c.outcome = "resolved" /\ c.chain = c.chainId)
                   /\ (c.switchError # <<>> /\ c.switchError[1].code # "4001") =>
                         (c.outcome = "resolved" /\ c.chain = c.chainBefore
                            /\ c.accounts = c.accountsAtSwitch)
                   /\ (c.switchError # <<>> /\ c.switchError[1].code = "4001") =>
                         c.outcome = "rejected"
             /\ (~ c.switchTried /\ c.outcome = "resolved" /\ c.chainId # 0) =>
                   c.chain = c.chainId
  /\ \A e \in SwitchErrorSamples, current \in ConfiguredChains :
       switchFailed(e, current) =
         IF e.name = "UserRejectedRequestError"
           THEN [rethrown |-> TRUE, id |-> 0]
           ELSE [rethrown |-> FALSE, id |-> current]

\* connect({chainId: 137}) on a session of chain 1 whose wallet does not
\* support 137: the notice window is opened, the switch fails, connect()
\* resolves with chain 1
C18_Witness ==
  \E i \in CallIds :
    /\ calls[i].op = "connect" /\ calls[i].pc = "done" /\ calls[i].chainId = 137
    /\ calls[i].switchTried
    /\ calls[i].switchError = <<SwitchChainErrorOf(ChainNotSupported(137))>>
    /\ calls[i].outcome = "resolved" /\ calls[i].chain = 1
    /\ pWindows = <<"unsupported-chain">>

---------------------------------------------------------------------------
(* Claims about initialization *)

\* C19: whatever setup(), getProvider(), connect() and isAuthorized() calls
\* have been made and however they overlap, at most one SessionManager and at
\* most one provider have been constructed, a constructed provider comes with
\* its SessionManager, and every getProvider() call that resolved returned
\* the one provider.
C19_InitializedOnce ==
  /\ host.sessionManagers <= 1
  /\ host.providers <= 1
  /\ host.providers = 1 => host.sessionManagers = 1
  /\ host.setupComplete => host.providers = 1
  /\ \A i \in CallIds :
       (calls[i].op = "getProvider" /\ calls[i].outcome = "resolved") =>
         (calls[i].provider = 1 /\ host.providers = 1)

\* two overlapping getProvider() calls, the first of which constructed the
\* provider, have both resolved
C19_Witness ==
  /\ \A i \in CallIds :
       /\ calls[i].op = "getProvider" /\ calls[i].outcome = "resolved"
       /\ ~ calls[i].alone /\ calls[i].provider = 1
  /\ \E i \in CallIds : calls[i].providerAtStart = "none"
  /\ host.sessionManagers = 1 /\ host.providers = 1

---------------------------------------------------------------------------
(* Claims about the connector's handlers on the provider *)

HandlerEvents == DOMAIN ConnectorHandlers

\* C20: at any moment each of the connector's three handlers is registered
\* on the provider at most once; they are registered exactly while the
\* EventManager holds them; attach() on an attached and detach() on a
\* detached EventManager change nothing; and when connect() resolved all
\* three were registered.
C20_HandlersRegisteredOnce ==
  /\ \A ev \in HandlerEvents : Cardinality(HandlersOn(pListeners, ev)) <= 1
  /\ host.bound # 0 => \A ev \in HandlerEvents : HandlersOn(pListeners, ev) # {}
  /\ host.bound = 0 => \A ev \in HandlerEvents : HandlersOn(pListeners, ev) = {}
  /\ attach(attach(World)) = attach(World)
  /\ detach(detach(World)) = detach(World)
  /\ host.bound # 0 => attach(World) = World
  /\ host.bound = 0 => detach(World) = World
  /\ \A i \in CallIds :
       (calls[i].op = "connect" /\ calls[i].outcome = "resolved") =>
         calls[i].registered = HandlerEvents

\* the provider was disconnected by the host while the handlers were
\* attached, and the connect() that followed has resolved with the handlers
\* registered again
C20_Witness ==
  /\ calls[1].op = "connect" /\ calls[1].outcome = "resolved"
  /\ calls[1].oauthStarted /\ calls[1].providerAtStart = "empty"
  /\ calls[1].registered = HandlerEvents
  /\ host.removing
  /\ host.bound # 0
  /\ \A ev \in HandlerEvents : Cardinality(HandlersOn(pListeners, ev)) = 1


---------------------------------------------------------------------------
(* Claim C21 *)

Count(seq, x) == Cardinality({k \in DOMAIN seq : seq[k] = x})

DisconnectCompleted(c) == c.op = "disconnect" /\ c.pc = "done" /\ c.outcome = "resolved"

---------------------------------------------------------------------------
(* Claim C22 *)

Saved == stg.op = "setSession"
PrimaryWritten == stg.hasWagmi /\ ~ stg.env.wagmiThrows
PrimaryFailed == stg.hasWagmi /\ stg.env.wagmiThrows
FallbackWritten == stg.browser /\ ~ stg.env.localThrows
FallbackFailed == stg.browser /\ stg.env.localThrows

\* each backend whose write went through holds the serialized session, the
\* other one what it held before
WritesIndependent ==
  /\ stg.wagmi = IF PrimaryWritten THEN <<stringify(stg.arg[1])>> ELSE stg.before[1].wagmi
  /\ stg.local = IF FallbackWritten THEN <<stringify(stg.arg[1])>> ELSE stg.before[1].local

\* C22 as stated: setSession writes to the primary and independently to the
\* fallback backend, resolves when only the primary write failed, and rejects
\* when both writes failed
C22_Original ==
  Saved =>
    /\ WritesIndependent
    /\ PrimaryFailed /\ FallbackWritten => stg.outcome = "resolved"
    /\ PrimaryFailed /\ FallbackFailed => stg.outcome = "rejected"

\* C22, what the code does: setSession writes to the primary and
\* independently to the fallback backend and never rejects; setItem inside it
\* throws exactly when the fallback write threw and no primary write went
\* through, and setSession catches that
C22_SaveNeverRejects ==
  Saved =>
    /\ WritesIndependent
    /\ stg.outcome = "resolved"
    /\ stg.itemThrew <=> (FallbackFailed /\ ~ PrimaryWritten)

\* a save whose primary write failed and whose fallback write went through
C22_Witness ==
  /\ Saved
  /\ PrimaryFailed /\ FallbackWritten
  /\ stg.local = <<stringify(stg.arg[1])>>
  /\ stg.wagmi # stg.local
  /\ stg.outcome = "resolved"

\* a save both of whose writes failed has resolved
C22_BothFailedResolved ==
  Saved /\ PrimaryFailed /\ FallbackFailed /\ stg.itemThrew /\ stg.outcome = "resolved"


---------------------------------------------------------------------------
(* Claim C23 *)

Loaded == stg.op = "getSession"

\* the item read is a valid session record
ValidFound ==
  stg.found # <<>> /\ stg.found[1].kind = "json" /\ isValidSession(stg.found[1].value)

\* nothing is stored: null, or the empty string the code treats like it
NothingFound == stg.found = <<>> \/ stg.found[1].kind = "empty"

\* removeSession was called and every backend that did not throw is empty
RecordDeleted ==
  /\ stg.removed
  /\ stg.hasWagmi /\ ~ stg.renv.wagmiThrows => stg.wagmi = <<>>
  /\ stg.browser /\ ~ stg.renv.localThrows => stg.local = <<>>

\* this load follows, with no backend throwing in either, a load that found
\* an invalid record
LaterLoad ==
  /\ stg.prior.op = "getSession" /\ stg.prior.invalid /\ stg.prior.clean
  /\ NoThrow(stg.env) /\ NoThrow(stg.renv)

\* C23 as stated: getSession never throws, returns the stored session when
\* the record is valid and none when nothing is stored; an invalid record,
\* unparseable or with a required field missing or mistyped, is deleted and
\* none is returned, and a later load returns none as well
C23_Original ==
  Loaded =>
    /\ stg.outcome = "resolved"
    /\ ValidFound => stg.returned = <<AsSession(stg.found[1].value)>>
    /\ NothingFound => stg.returned = <<>>
    /\ Invalid(stg.found) => stg.returned = <<>> /\ RecordDeleted
    /\ LaterLoad => stg.returned = <<>>

\* C23, what the code does: getSession never throws, returns the stored
\* session when the record is valid and none otherwise; removeSession is
\* called exactly for a record that parses and fails isValidSession, while a
\* record that does not parse is left in place; a later load returns none
C23_LoadNeverThrows ==
  Loaded =>
    /\ stg.outcome = "resolved"
    /\ ValidFound => stg.returned = <<AsSession(stg.found[1].value)>>
    /\ ~ ValidFound => stg.returned = <<>>
    /\ stg.removed <=> (Invalid(stg.found) /\ stg.found[1].kind = "json")
    /\ stg.removed => RecordDeleted
    /\ ~ stg.removed => Kept(stg) = stg.before[1]
    /\ LaterLoad => stg.returned = <<>>

\* a load has found a record with a required field missing, deleted it from
\* both backends and returned none
C23_Witness ==
  /\ Loaded
  /\ Invalid(stg.found) /\ stg.found[1].kind = "json"
  /\ stg.found[1].value.type = "object"
  /\ stg.removed /\ stg.wagmi = <<>> /\ stg.local = <<>>
  /\ stg.before[1].local # <<>>
  /\ stg.returned = <<>>

\* a load has found a record that does not parse and left it where it was
C23_UnparseableKept ==
  /\ Loaded
  /\ stg.found = <<Garbage>>
  /\ stg.returned = <<>>
  /\ ~ stg.removed
  /\ stg.found \in {stg.wagmi, stg.local}

\* a load has returned the session saved before it
C23_RoundTrip ==
  /\ Loaded
  /\ stg.prior.op = "setSession"
  /\ stg.returned # <<>>
  /\ stg.returned[1] \in StorageSessions


---------------------------------------------------------------------------
(* Claim C24 *)

\* call i of the provider has had its refresh answered and applied
RefreshApplied(i) == bk[i].kind = "operation" /\ bk[i].pc \in {"persist", "retry"}

\* C24: when the refresh request of refreshAndPersist is answered, the
\* session gets the access token, the refresh token and the expiry of that
\* one answer and keeps its wallet address, chain id and supported chains;
\* the token then returned to withAuthFetch for the retry is an access token
\* issued by a refresh, the one of this answer unless another call refreshed
\* as well, whether or not the refreshed session could be persisted
C24_RefreshReplacesTokens ==
  \A i \in BackendIds :
    RefreshApplied(i) =>
      LET before == bk[i].before[1]
          after == bk[i].after[1]
          refreshed == bk[i].refreshed[1]
      IN  /\ after.accessToken = refreshed.access_token
          /\ after.refreshToken = refreshed.refresh_token
          /\ after.expiresAt = clockNow + refreshed.expires_in * MsPerSecond
          /\ after.walletAddress = before.walletAddress
          /\ after.chainId = before.chainId
          /\ after.hasSupportedChains = before.hasSupportedChains
          /\ after.supportedChains = before.supportedChains
          /\ bk[i].pc = "retry" =>
               /\ bk[i].returned \in {r.access_token : r \in RefreshResponses}
               /\ Len(bk[i].sent) = 2 /\ bk[i].sent[2] = bk[i].returned
               /\ bk[i].returned # bk[i].sent[1]
               /\ (\A j \in BackendIds \ {i} : bk[j].kind = "none") =>
                    bk[i].returned = refreshed.access_token

\* a refresh was applied to a session with supported chains, persisting it
\* failed, and the retry went out with the new access token
C24_Witness ==
  \E i \in BackendIds :
    /\ RefreshApplied(i)
    /\ bk[i].pc = "retry"
    /\ ~ bk[i].persisted
    /\ bk[i].returned = bk[i].refreshed[1].access_token
    /\ bk[i].before[1].accessToken # bk[i].returned
    /\ bk[i].before[1].hasSupportedChains
    /\ pSession = bk[i].after
    /\ host.stored # pSession


---------------------------------------------------------------------------
(* Claim C25 *)

\* the calls whose refresh request is in flight
Refreshing == {i \in BackendIds : bk[i].pc = "refresh"}

\* C25 as stated: at no time are two token-refresh requests in flight
C25_Original == Cardinality(Refreshing) <= 1

\* C25, what the code does: every call refreshes at most once and sends at
\* most two requests, and a refresh in flight carries the refresh token the
\* session held when the call got its 401
C25_OneRefreshPerCall ==
  \A i \in BackendIds :
    /\ bk[i].refreshes <= 1
    /\ Len(bk[i].sent) <= 2
    /\ Len(bk[i].sent) = 2 => bk[i].refreshes = 1
    /\ i \in Refreshing => bk[i].refreshes = 1 /\ bk[i].refreshSent # ""

\* two calls of the provider got a 401 and both refresh, with the same
\* refresh token
C25_Witness ==
  \E i, j \in Refreshing :
    /\ i # j
    /\ bk[i].kind = "operation" /\ bk[j].kind = "operation"
    /\ bk[i].refreshSent = bk[j].refreshSent

---------------------------------------------------------------------------
(* Claim C26 *)

\* the refresh request of call i fails in this step
RefreshFails(i) == bk[i].pc = "refresh" /\ bk'[i].refreshFailed

\* C26 as stated: whenever a refresh request fails, during a restore or
\* during the refresh-and-retry of an operation, the session is cleared from
\* memory and the persisted record is removed
C26_Original ==
  [][\A i \in BackendIds :
       RefreshFails(i) =>
         pSession' = <<>> /\ host'.session = <<>> /\ host'.stored = <<>>]_vars

\* C26, what the code does: a refresh that fails during a restore clears the
\* SessionManager's session and removes the persisted record; one that fails
\* during the refresh-and-retry of an operation rejects the operation and
\* leaves the provider's session, the SessionManager's session and the
\* persisted record as they were
C26_RefreshFailure ==
  [][\A i \in BackendIds :
       RefreshFails(i) =>
         IF bk[i].kind = "restore"
           THEN /\ host'.session = <<>> /\ host'.stored = <<>>
                /\ host.stored # <<>>
                /\ pSession' = <<>>
                /\ bk'[i].outcome = "resolved"
           ELSE /\ UNCHANGED <<pSession, host>>
                /\ bk'[i].outcome = "rejected" /\ bk'[i].error = RefreshFailed]_vars

\* the refresh of a restore has failed and nothing is left
C26_Witness ==
  \E i \in BackendIds :
    /\ bk[i].kind = "restore" /\ bk[i].refreshFailed
    /\ host.session = <<>> /\ host.stored = <<>> /\ pSession = <<>>

\* the refresh of an operation has failed and the session is still held and
\* stored
C26_SessionKept ==
  \E i \in BackendIds :
    /\ bk[i].kind = "operation" /\ bk[i].refreshFailed
    /\ pSession # <<>> /\ host.session # <<>> /\ host.stored # <<>>


---------------------------------------------------------------------------
(* Claim C27 *)

\* a create-transaction request has been built from a value field
ValueBuilt == req.pc \in {"built", "done"} /\ req.txValue # <<>>

\* the dApp supplied no value or a hex quantity, and the number it means
SuppliedQuantity == req.valueArg = <<>> \/ IsHexQuantity(req.valueArg[1])
SuppliedNumber == IF req.valueArg = <<>> THEN 0 ELSE ParseIntHex(req.valueArg[1])

\* the request carries the decimal string of n
CarriesDecimal(n) ==
  IsDecimalString(req.txValue) /\ DecimalValue(req.txValue, Len(req.txValue)) = n

\* C27 as stated: the request of eth_sendTransaction and of every call of
\* wallet_sendCalls carries the value as the decimal string of the number
\* the dApp supplied as a hex quantity, and "0" when it supplied none
C27_Original == ValueBuilt /\ SuppliedQuantity => CarriesDecimal(SuppliedNumber)

\* C27, what the code does: wallet_sendCalls sends the decimal string of
\* the hex quantity supplied, "0" for an absent value and "0" for a value
\* BigInt cannot read; eth_sendTransaction sends the value as it came, and
\* "0" for an absent or empty one
C27_ValueSent ==
  ValueBuilt =>
    IF req.method = "wallet_sendCalls"
      THEN /\ IsDecimalString(req.txValue)
           /\ SuppliedQuantity => CarriesDecimal(SuppliedNumber)
           /\ req.valueArg # <<>> /\ BigIntOf(req.valueArg[1]) = <<>> => req.txValue = <<"0">>
      ELSE /\ req.valueArg = <<>> => req.txValue = <<"0">>
           /\ req.valueArg # <<>> /\ req.valueArg[1] # <<>> => req.txValue = req.valueArg[1]

\* wallet_sendCalls has sent the hex quantity 0xa as "10"
C27_Witness ==
  /\ ValueBuilt
  /\ req.method = "wallet_sendCalls"
  /\ req.pc = "done"
  /\ req.valueArg = <<(<<"0", "x", "a">>)>>
  /\ req.txValue = <<"1", "0">>

\* eth_sendTransaction has sent a hex quantity unconverted
C27_HexSent ==
  /\ ValueBuilt
  /\ req.method = "eth_sendTransaction"
  /\ req.valueArg = <<(<<"0", "x", "a">>)>>
  /\ req.txValue = <<"0", "x", "a">>


---------------------------------------------------------------------------
(* Claim C28 *)

WaitRunning == pl.kind \in WaitKinds

\* C28: a polling primitive makes at most maxAttempts status polls (each at
\* most one request and one retry after a token refresh), has at most one
\* status request in flight, makes no poll after the first terminal result,
\* and throws its timeout error exactly when the attempts ran out, which no
\* failure reported by the backend produces
C28_PollingBounded ==
  WaitRunning =>
    /\ pl.polls <= pl.maxAttempts
    /\ pl.requests <= 2 * pl.polls
    /\ pl.inFlight \in {0, 1}
    /\ pl.inFlight = 1 <=> pl.pc \in {"first", "retry"}
    /\ pl.terminalAt # 0 =>
         pl.pc = "done" /\ pl.polls = pl.terminalAt /\ pl.cause \in {"none", "remote"}
    /\ pl.cause = "exhausted" <=> (pl.pc = "done" /\ pl.error = WaitTimeout(pl.kind))
    /\ pl.cause = "exhausted" =>
         pl.outcome = "threw" /\ pl.polls = pl.maxAttempts /\ pl.terminalAt = 0
    /\ pl.cause = "remote" => pl.outcome = "threw" /\ pl.error # WaitTimeout(pl.kind)

\* waitForTransactionCompletion has used up all its attempts, one of them
\* with a retried request, and thrown the timeout error
C28_Witness ==
  /\ pl.kind = "completion"
  /\ pl.maxAttempts = MaxPollAttempts
  /\ pl.polls = MaxPollAttempts
  /\ pl.requests > pl.polls
  /\ pl.cause = "exhausted"
  /\ pl.error = CompletionTimeout

\* waitForSignCompletion has stopped at a rejected status on its second poll
C28_RemoteFailure ==
  /\ pl.kind = "sign"
  /\ pl.terminalAt = 2
  /\ pl.cause = "remote"
  /\ pl.error = "Signing rejected"


---------------------------------------------------------------------------
(* Claim C29 *)

\* every entry of the batch map is still there, with the same list
BatchesKept ==
  \A b \in DOMAIN pBatches : b \in DOMAIN pBatches' /\ pBatches'[b] = pBatches[b]

\* wallet_sendCalls returns a batch id in this step
BatchReturned ==
  /\ req.pc # "done"
  /\ req'.method = "wallet_sendCalls"
  /\ req'.pc = "done"
  /\ req'.outcome = "resolved"

\* what wallet_getCallsReceipt has done agrees with the entry of its id: an
\* id without entry is rejected as unknown, and the statuses and receipts
\* are those of the entry's transactions, in the entry's order
ReceiptReadsBatch ==
  req.method = "wallet_getCallsReceipt" /\ req.hadSession =>
    IF req.batchId \notin DOMAIN pBatches
      THEN req.pc = "done" /\ req.outcome = "rejected" /\ req.value = UnknownBatch
      ELSE /\ req.value # UnknownBatch
           /\ Len(req.gathered) <= Len(pBatches[req.batchId])
           /\ \A i \in DOMAIN req.gathered :
                req.gathered[i].transaction_hash \in {NoHash, HashOfTx(pBatches[req.batchId][i])}
           /\ req.receipt.hasReceipts =>
                /\ Len(req.receipt.receipts) = Len(pBatches[req.batchId])
                /\ \A i \in DOMAIN req.receipt.receipts :
                     req.receipt.receipts[i].transactionHash = HashOfTx(pBatches[req.batchId][i])

\* C29: disconnect and close empty the batch map; every other step keeps
\* each entry with its list, wallet_sendCalls adds the list it created under
\* an id that had no entry, and wallet_getCallsReceipt answers from the
\* entry of its id, an id without entry being unknown
C29_BatchesStable ==
  /\ []ReceiptReadsBatch
  /\ [][IF ProviderDisconnect \/ ProviderClose
          THEN pBatches' = NoBatches
          ELSE /\ BatchesKept
               /\ BatchReturned =>
                    /\ req'.batchId \notin DOMAIN pBatches
                    /\ pBatches'[req'.batchId] = req'.created
                    /\ DOMAIN pBatches' = DOMAIN pBatches \cup {req'.batchId}]_vars

\* with two batches stored, the receipt of the first has been built from
\* its two transactions
C29_Witness ==
  /\ DOMAIN pBatches = BatchIds
  /\ req.method = "wallet_getCallsReceipt"
  /\ req.outcome = "resolved"
  /\ req.receipt.hasReceipts
  /\ Len(pBatches[req.batchId]) = 2
  /\ Len(req.receipt.receipts) = 2

\* after close() an id is unknown
C29_UnknownAfterClose ==
  /\ pBatches = NoBatches
  /\ pListeners = NoListeners
  /\ req.method = "wallet_getCallsReceipt"
  /\ req.value = UnknownBatch

---------------------------------------------------------------------------
(* Claim C30 *)

\* wallet_getCallsReceipt has answered
ReceiptAnswered ==
  /\ req.method = "wallet_getCallsReceipt"
  /\ req.pc = "done"
  /\ req.outcome = "resolved"

\* the status of a member leaves its outcome open: no execution status, and
\* a lifecycle status that is neither completed nor failed
OutcomeOpen(s) ==
  /\ "execution_status" \notin DOMAIN s
  /\ s.status \notin {Str(W_completed), Str(W_failed)}

\* the status of a member reports a failure
ReportedFailed(s) ==
  \/ s.status = Str(W_failed)
  \/ "execution_status" \in DOMAIN s /\ s.execution_status = "failed"

\* C30: when every member has a hash and the outcome of one is open, the
\* answer is PENDING without receipts; a receipt has status 0x0 only for a
\* member reported as failed, and 0x1 or 0x0 otherwise
C30_AmbiguousStaysPending ==
  ReceiptAnswered =>
    /\ (\E i \in DOMAIN req.gathered : OutcomeOpen(req.gathered[i])) =>
         req.receipt = Pending
    /\ \A i \in DOMAIN req.receipt.receipts :
         /\ req.receipt.receipts[i].status \in {"0x0", "0x1"}
         /\ req.receipt.receipts[i].status = "0x0" => ReportedFailed(req.gathered[i])

\* both members have a hash, one is only broadcast: PENDING
C30_Witness ==
  /\ ReceiptAnswered
  /\ Len(req.gathered) = 2
  /\ \A i \in DOMAIN req.gathered : HasHash(req.gathered[i])
  /\ req.gathered[1].status = Str(W_completed)
  /\ OutcomeOpen(req.gathered[2])
  /\ req.receipt = Pending

\* a receipt with status 0x0 for a failed member beside one with 0x1
C30_FailedReceipt ==
  /\ ReceiptAnswered
  /\ req.receipt.status = "CONFIRMED"
  /\ Len(req.receipt.receipts) = 2
  /\ req.receipt.receipts[1].status = "0x1"
  /\ req.receipt.receipts[2].status = "0x0"


---------------------------------------------------------------------------
(* Claim C31 *)

\* the answer carries one receipt per member
ReceiptsBuilt == rc.answered /\ rc.receipt.hasReceipts

\* C31 as stated: in the receipts, a member whose payload carries the
\* execution status failed has status 0x0 and one whose payload carries
\* success has 0x1, whatever its lifecycle status
C31_Original ==
  ReceiptsBuilt =>
    \A i \in DOMAIN rc.payloads :
      /\ rc.payloads[i].execution_status = "failed" => rc.receipt.receipts[i].status = "0x0"
      /\ rc.payloads[i].execution_status = "success" => rc.receipt.receipts[i].status = "0x1"

\* C31, what the code does: the execution status of the payload has no
\* effect; receipts are built exactly when every member has a hash and a
\* lifecycle status of completed or failed, and a receipt's status is 0x1
\* for completed and 0x0 for failed
C31_LifecycleDecides ==
  rc.answered =>
    /\ rc.receipt.hasReceipts <=>
         \A i \in DOMAIN rc.payloads :
           /\ rc.payloads[i].hash # NoHash
           /\ mapStatus(rc.payloads[i].status) \in {Str(W_completed), Str(W_failed)}
    /\ rc.receipt.hasReceipts =>
         /\ rc.receipt.status = "CONFIRMED"
         /\ DOMAIN rc.receipt.receipts = DOMAIN rc.payloads
         /\ \A i \in DOMAIN rc.payloads :
              rc.receipt.receipts[i].status =
                IF mapStatus(rc.payloads[i].status) = Str(W_failed) THEN "0x0" ELSE "0x1"
    /\ ~ rc.receipt.hasReceipts => rc.receipt = Pending

\* a completed member whose payload reports the execution status failed
\* has the receipt status 0x1
C31_Witness ==
  /\ ReceiptsBuilt
  /\ Len(rc.payloads) = 2
  /\ rc.payloads[2].execution_status = "failed"
  /\ rc.payloads[2].status = Str(W_completed)
  /\ rc.receipt.receipts[2].status = "0x1"


---------------------------------------------------------------------------
(* Claim C32 *)

\* the chain id the session had before the latest operation, 0 without one
ChainBeforeOperation ==
  IF req.method = "updateSession"
    THEN IF req.prev = <<>> THEN 0 ELSE req.prev[1].chainId
    ELSE req.chainBefore

ChainChangedEmitted == HasEvent("chainChanged")

\* a wallet_switchEthereumChain that passed its checks
SwitchChainPassed ==
  /\ req.method = "wallet_switchEthereumChain"
  /\ req.pc = "done"
  /\ req.hadSession
  /\ req.chainReq # 0
  /\ pSession # <<>>
  /\ pSession[1].chainId = req.chainReq
  /\ req.outcome = "resolved" \/ req.value = ListenerThrew

\* C32 as stated: chainChanged is emitted by an operation only when the
\* session's chain id after it differs from the one before it
C32_Original ==
  ChainChangedEmitted =>
    pSession # <<>> /\ pSession[1].chainId # ChainBeforeOperation

\* C32, what the code does: chainChanged is emitted by updateSession when
\* the chain id differs from the previous session's or there was none, and
\* by every wallet_switchEthereumChain that passed its checks, the active
\* chain included; no other operation emits it, and the event carries the
\* hex form of the session's chain id
C32_ChainChangedEmittedBy ==
  /\ ChainChangedEmitted =>
       /\ pSession # <<>>
       /\ pEmitted[Len(pEmitted)] = Event("chainChanged", HexOf(pSession[1].chainId))
       /\ \/ req.method = "updateSession" /\ pSession[1].chainId # ChainBeforeOperation
          \/ SwitchChainPassed
  /\ SwitchChainPassed => pEmitted = <<Event("chainChanged", HexOf(req.chainReq))>>

\* a switch to the active chain has resolved and emitted chainChanged
C32_Witness ==
  /\ SwitchChainPassed
  /\ req.outcome = "resolved"
  /\ req.chainBefore = req.chainReq
  /\ pEmitted = <<Event("chainChanged", <<"0", "x", "1">>)>>


---------------------------------------------------------------------------
(* Claim C33 *)

\* in this step a connect() settles whose chain switch went through the
\* provider and succeeded, the connector's handlers being attached
SwitchSettles ==
  /\ calls[1].pc # "done"
  /\ calls'[1].pc = "done"
  /\ calls'[1].op = "connect"
  /\ calls'[1].switchTried
  /\ calls'[1].switchError = <<>>
  /\ calls'[1].chainBefore # calls'[1].chainId
  /\ HandlersOn(pListeners', "chainChanged") # {}

\* C33 as stated: after the switch the persisted record carries the new
\* chain id
C33_Original ==
  [][SwitchSettles =>
       host'.stored # <<>> /\ host'.stored[1].chainId = calls'[1].chainId]_vars

\* C33, what the code does: the provider and the SessionManager hold one
\* session object, so after the switch both show the new chain id, the
\* handler finds nothing to change, the host receives 'change', and the
\* persisted record keeps the chain id it had before the switch, which is
\* what a later restore yields
C33_SwitchNotPersisted ==
  [][SwitchSettles =>
       /\ pSession' # <<>> /\ pSession'[1].chainId = calls'[1].chainId
       /\ host'.session = pSession'
       /\ Count(calls'[1].hostEvents, "change") >= 1
       /\ host'.stored # <<>>
       /\ host'.stored[1].chainId = calls'[1].chainBefore
       /\ \A env \in HostRestoreEnvs :
            LET restored == Restore(host'.stored, env, clockNow)
            IN  restored # <<>> => restored[1].chainId = calls'[1].chainBefore]_vars

\* a connect with chain 10 has switched the session from chain 1 and the
\* record still names chain 1
C33_Witness ==
  /\ calls[1].pc = "done"
  /\ calls[1].op = "connect"
  /\ calls[1].switchTried
  /\ calls[1].switchError = <<>>
  /\ calls[1].chainBefore = 1
  /\ calls[1].chainId = 10
  /\ pSession # <<>> /\ pSession[1].chainId = 10
  /\ host.session = pSession
  /\ host.stored # <<>> /\ host.stored[1].chainId = 1


---------------------------------------------------------------------------
(* Claim C34 *)

\* the polling loop of the attempt is between two requests
AuthPolling == auth.polling = "running"

\* in this step the loop of pollAuthStatus sends a poll-status request and
\* gets its answer
AuthPollStep ==
  /\ AuthPolling
  /\ auth.attempt < PollAuthMaxAttempts
  /\ \/ auth'.polling = "running" /\ auth'.attempt = auth.attempt + 1
     \/ auth'.polling = "ended"

\* the attempt was settled by the postMessage handler or by the timer
SettledByOtherPath(a) ==
  /\ Len(a.settles) = 1
  /\ \/ a.settles[1].kind = "resolve" /\ a.settles[1].code # "codeP"
     \/ a.settles[1] = Rejection(AuthTimedOut)

\* C34 as stated: once the attempt has settled, the polling loop sends no
\* further poll-status request
C34_Original == [][auth.resolved => ~ AuthPollStep]_vars

\* C34, what the code does: a settlement by postMessage or by the timer
\* leaves the polling loop running (the AbortController that cleanup()
\* aborts is passed to nothing); the loop goes on until its own result or
\* its last attempt, and what it then delivers is ignored
C34_PollingOutlivesSettlement ==
  [][/\ ~ auth.resolved /\ auth'.resolved /\ AuthPolling /\ SettledByOtherPath(auth') =>
          auth'.polling = "running" /\ auth'.attempt = auth.attempt
     /\ auth.resolved /\ AuthPollStep =>
          /\ auth'.settles = auth.settles
          /\ auth'.resolved
          /\ auth'.polling = "ended" => auth'.late = 1]_vars

\* the attempt was settled by a postMessage before the first poll, and the
\* loop has since made two polls and delivered a result that was ignored
C34_Witness ==
  /\ auth.resolved
  /\ Len(auth.settles) = 1
  /\ auth.settles[1].kind = "resolve"
  /\ auth.settles[1].code # "codeP"
  /\ auth.polling = "ended"
  /\ auth.attempt = 2
  /\ auth.late = 1


---------------------------------------------------------------------------
(* Claim C35 *)

\* one of the four operations is under way
ReviewUnderWay == req.method \in Flows \cup {"wallet_sendCalls"} /\ req.pc # "done"

ReviewSettled == req.pc = "done" /\ req.outcome \in {"resolved", "rejected"}

\* the popup was blocked and the snackbar with its retry button is shown
AwaitingRetry == req.pc = "snackbar"

\* C35 as stated: with a backend that answers every request, the operation
\* settles without any step of the user
C35_Original == ReviewUnderWay ~> ReviewSettled

\* C35, what the code does: the operation settles, or it waits at the
\* snackbar for the user's click on the retry button; a window that opens
\* or a pre-opened window that is reused lets the operation go on at once
C35_SettlesOrAwaitsRetry == ReviewUnderWay ~> (ReviewSettled \/ AwaitingRetry)

\* eth_sendTransaction waits at the snackbar
C35_Witness ==
  /\ req.method = "eth_sendTransaction"
  /\ AwaitingRetry
  /\ req.txId # ""
  /\ req.polls = 0


---------------------------------------------------------------------------
(* Claim C36 *)

\* no call of the host is under way and the provider exists
HostAtRest == host.providers > 0 /\ \A i \in CallIds : ~ InFlight(calls[i])

\* provider and SessionManager both hold no session, or sessions with the
\* same address and chain id
SessionsAgree ==
  /\ pSession = <<>> <=> host.session = <<>>
  /\ pSession # <<>> /\ host.session # <<>> =>
       /\ pSession[1].walletAddress = host.session[1].walletAddress
       /\ pSession[1].chainId = host.session[1].chainId

\* C36 as stated: whenever the host's calls have completed, provider and
\* SessionManager agree
C36_Original == HostAtRest => SessionsAgree


\* in this step the host's call of `op` resolves
CallResolves(op) ==
  /\ calls[1].pc # "done"
  /\ calls'[1].pc = "done"
  /\ calls'[1].op = op
  /\ calls'[1].outcome = "resolved"

\* C36, what the code does: provider and SessionManager agree when setup,
\* getProvider or connect resolves, connect leaving both with one session
\* and disconnect leaving both without; between the calls they can part
\* (the provider disconnected while no handler is attached, a restore by
\* isAuthorized, the removal that a handled 'disconnect' still awaits)
C36_AgreeAtCompletion ==
  [][/\ CallResolves("setup") \/ CallResolves("getProvider") => SessionsAgree'
     /\ CallResolves("connect") => pSession' # <<>> /\ host'.session = pSession'
     /\ CallResolves("disconnect") => pSession' = <<>> /\ host'.session = <<>>]_vars

\* connect has resolved after OAuth and both hold the new session
C36_Witness ==
  /\ HostAtRest
  /\ calls[1].op = "connect"
  /\ calls[1].outcome = "resolved"
  /\ calls[1].oauthStarted
  /\ pSession # <<>>
  /\ host.session = pSession

\* after setup restored a session the provider was disconnected, no handler
\* being attached: the SessionManager still holds the session
C36_Diverged ==
  /\ HostAtRest
  /\ calls[1].op = "setup"
  /\ host.bound = 0
  /\ pSession = <<>>
  /\ host.session # <<>>


---------------------------------------------------------------------------
(* Claim C37 *)

\* a refresh of this loop has succeeded
LoopRefreshed == WaitRunning /\ pl.sessionToken # pl.accessToken

\* the first request of an iteration is in flight
FirstRequestOut == pl.pc = "first" /\ Len(pl.sent) = 1

\* C37 as stated: after a refresh of the loop has succeeded, the first
\* request of every later iteration carries the refreshed token, so a
\* backend that answers 401 to the old token only sees one refresh
C37_Original ==
  LoopRefreshed =>
    /\ FirstRequestOut => pl.sent[1] = pl.sessionToken
    /\ pl.refreshes <= 1

\* C37, what the code does: every iteration sends its first request with
\* the token the primitive was called with, whatever the session holds by
\* then; only the retry carries the token of the refresh just made, and a
\* loop makes up to one refresh per poll
C37_LoopKeepsFirstToken ==
  WaitRunning =>
    /\ pl.sent # <<>> => pl.sent[1] = pl.accessToken
    /\ Len(pl.sent) = 2 => pl.sent[2] = pl.sessionToken /\ pl.sent[2] # pl.accessToken
    /\ pl.refreshes <= pl.polls
    /\ pl.sessionToken <= pl.refreshes

\* a loop of three polls whose first requests were all answered 401: three
\* refreshes, and the third poll was still first sent with the old token
C37_Witness ==
  /\ WaitRunning
  /\ pl.kind = "hash"
  /\ pl.polls = 3
  /\ pl.refreshes = 3
  /\ pl.sessionToken = 3
  /\ pl.sent = <<0, 3>>


---------------------------------------------------------------------------
(* Claim C38 *)

\* attempt i has sent its code exchange
Exchanged(i) == px.at[i].exchanged # <<>>

\* the verifier of the exchange of attempt i is the one whose challenge and
\* state are in the authorization URL of attempt i
OwnVerifierSent(i) ==
  /\ px.at[i].url = <<buildAuthUrl(generatePKCEParams(i))>>
  /\ px.at[i].exchanged[1].codeVerifier = generatePKCEParams(i).codeVerifier

\* C38 as stated: with overlapping OAuth attempts, every code exchange
\* carries the verifier of its own attempt, and an attempt that waits for
\* its window still finds its own triple stored, whatever the other
\* attempt stored, completed or cleaned up
C38_Original ==
  \A i \in CallIds :
    /\ Exchanged(i) => OwnVerifierSent(i)
    /\ px.at[i].pc = "window" => px.store = <<generatePKCEParams(i)>>

\* C38, what the code does: there is one stored triple, the one of the
\* attempt that stored last unless an attempt that ended has removed it;
\* every exchange carries the verifier of its own attempt or of an attempt
\* that stored later; an attempt alone sends its own
C38_LatestVerifierSent ==
  /\ px.store # <<>> =>
       \E j \in CallIds : px.at[j].gen = px.gens /\ px.store = <<generatePKCEParams(j)>>
  /\ \A i \in CallIds :
       Exchanged(i) =>
         \E j \in CallIds :
           /\ px.at[j].gen >= px.at[i].gen
           /\ px.at[i].exchanged[1].codeVerifier = generatePKCEParams(j).codeVerifier
           /\ px.gens = 1 => j = i

\* two attempts overlapped: the first one exchanged its own code with the
\* verifier of the second, and the second found no triple left
C38_Witness ==
  /\ px.at[1].gen = 1 /\ px.at[2].gen = 2
  /\ px.at[1].exchanged = <<[code |-> AuthAnswer(1).code,
                              codeVerifier |-> generatePKCEParams(2).codeVerifier]>>
  /\ px.at[1].outcome = "resolved"
  /\ px.at[2].error = MissingPkce


---------------------------------------------------------------------------
(* Claim C39 *)

\* no session is held by the session manager or the provider, and no
\* record is stored
NothingHeld == host.session = <<>> /\ pSession = <<>> /\ host.stored = <<>>

\* a disconnect() has resolved and every call has completed; the records
\* of two completed calls are those of calls that overlapped
DisconnectEnded(i) ==
  /\ \A j \in CallIds : ~ InFlight(calls[j])
  /\ calls[i].op = "disconnect"
  /\ calls[i].outcome = "resolved"

RestoringCall(j) == calls[j].op \in {"setup", "isAuthorized"} /\ calls[j].pc = "done"

\* C39 as stated: once a disconnect() and the restoring call it overlapped
\* with have both completed, nothing is held and nothing is stored
C39_Original ==
  \A i, j \in CallIds :
    (DisconnectEnded(i) /\ RestoringCall(j)) => NothingHeld

\* C39, what the code does: a disconnect() during which no other call is in
\* flight leaves nothing held and nothing stored; a restore that overlaps
\* can leave a session behind, and then the provider holds it or it is the
\* refreshed one, held by the session manager and stored again
C39_FinalWhenAlone ==
  \A i \in CallIds :
    DisconnectEnded(i) =>
      /\ calls[i].alone => NothingHeld
      /\ ~ NothingHeld =>
           \/ pSession # <<>> /\ host.session = <<>> /\ host.stored = <<>>
           \/ /\ host.session # <<>>
              /\ host.session[1].accessToken = "tok1"
              /\ host.stored = host.session

\* isAuthorized() read an expired record, disconnect() ran to its end, and
\* the refresh answered afterwards: the session manager holds the refreshed
\* session and the record is in storage again
C39_Witness ==
  \E i, j \in CallIds :
    /\ DisconnectEnded(i)
    /\ calls[j].op = "isAuthorized" /\ calls[j].pc = "done" /\ calls[j].authorized
    /\ host.session # <<>>
    /\ host.stored = host.session
    /\ pSession = <<>>


---------------------------------------------------------------------------
(* Claim C40 *)

\* a load that directly follows a save, and the session saved
LoadAfterSave == stg.op = "getSession" /\ stg.prior.op = "setSession"
SavedSession == stg.prior.arg[1]

\* the writes of that save that went through
SavePrimaryWritten == stg.hasWagmi /\ ~ stg.prior.env.wagmiThrows
SaveFallbackWritten == stg.browser /\ ~ stg.prior.env.localThrows

\* a load that directly follows a remove that met two operational backends
LoadAfterRemove ==
  /\ stg.op = "getSession"
  /\ stg.prior.op = "removeSession"
  /\ stg.hasWagmi /\ stg.browser
  /\ NoThrow(stg.prior.env)

\* C40 as stated: the load after a save of which one write at least went
\* through returns the session saved; the load after a remove on two
\* operational backends returns none
C40_Original ==
  /\ (LoadAfterSave /\ (SavePrimaryWritten \/ SaveFallbackWritten)) =>
       stg.returned = <<SavedSession>>
  /\ LoadAfterRemove => stg.returned = <<>>

\* C40, what the code does: a load reads the primary's item when there is
\* one it can read, and the fallback's only otherwise. A session that
\* JSON carries unchanged is returned when the primary was written and is
\* read, or when the fallback was written and is read with no primary
\* configured or an empty one; a primary whose write failed, read again,
\* answers with the item it held before the save. After a remove on two
\* operational backends the load returns none.
C40_LoadReadsPrimaryFirst ==
  /\ (LoadAfterSave /\ SavedSession.expiresAt # NaN) =>
       /\ (SavePrimaryWritten /\ ~ stg.env.wagmiThrows) => stg.returned = <<SavedSession>>
       /\ (SaveFallbackWritten /\ ~ stg.env.localThrows
             /\ (~ stg.hasWagmi \/ stg.before[1].wagmi = <<>>)) =>
            stg.returned = <<SavedSession>>
       /\ (stg.hasWagmi /\ ~ SavePrimaryWritten /\ ~ stg.env.wagmiThrows
             /\ stg.before[1].wagmi # <<>>) =>
            /\ stg.found = stg.before[1].wagmi
            /\ SaveFallbackWritten => stg.before[1].local = <<stringify(SavedSession)>>
  /\ LoadAfterRemove => stg.returned = <<>> /\ stg.found = <<>>

\* the save of the refreshed session failed on the primary and reached the
\* fallback; the load returns the session the primary still held
C40_Witness ==
  /\ LoadAfterSave
  /\ ~ SavePrimaryWritten /\ SaveFallbackWritten
  /\ NoThrow(stg.env)
  /\ SavedSession.accessToken = "tok1"
  /\ stg.returned # <<>>
  /\ stg.returned[1].accessToken = "tok0"
  /\ stg.local = <<stringify(SavedSession)>>

=============================================================================
